---- MODULE Spec2Model ----
(***************************************************************************)
(* Lunch splitter (src/script.js): the state store, the allocation engine, *)
(* the shareable-link encoding and the startup load, as a state machine.   *)
(*                                                                         *)
(* Conventions of the model                                                *)
(*  - A JavaScript string is a sequence of one-character strings, so that  *)
(*    trim, toLowerCase, split, join, parseFloat and the template literal  *)
(*    `${number}` are computed character by character.                     *)
(*  - A JavaScript number held by the store (price, quantity, tax, tip) is *)
(*    an integer count of hundredths (20 is 2000, 0.5 is 50), or NaN.      *)
(*    Derived amounts (price per unit, shares, totals) are exact rationals *)
(*    [n, d] in lowest terms: the floating-point rounding of the code is   *)
(*    not modelled, which is what "within rounding" abstracts.             *)
(*  - A JavaScript object used as a map (personQuantities) is a function   *)
(*    whose domain is the set of its keys.                                 *)
(***************************************************************************)
EXTENDS Integers, Sequences, FiniteSets, TLC

VARIABLES
    state,          \* the `state` object of script.js:2-11
    localStorage,   \* <<>> or <<snapshot>>: the 'lunchSplitterState' entry
    location,       \* the query parameters of window.location.search
    lastOp,         \* history: whether the last handler was deletePerson (with the
                    \* id and the lists it found), the performUndo that followed
                    \* it, or copyShareLink
    editing,        \* <<>> or <<closure>>: what an open editItem holds
                    \* (script.js:392-404) and its inputs and blur timer
    debounced       \* the tax and tip inputs and the timers of their debounced
                    \* updates (script.js:14-24, 71-84)

vars == <<state, localStorage, location, lastOp, editing, debounced>>

\* ------------------------------------------------------------------ bounds
\* the longest roster and the longest item list
MaxPeople == 2
MaxItems == 2
\* people and items are added while nextPersonId and nextItemId are below MaxId
MaxId == 2
\* people and items are deleted while the undo stack is shorter than MaxUndo
MaxUndo == 1
\* the deletions of SpecUndo are followed while the undo stack is shorter than
\* MaxLog
MaxLog == 3
\* the most units an item holds when its quantities are shuffled
MaxUnits == 2
\* the most input events the two rate inputs take
MaxEvents == 3

\* ----------------------------------------------------------------- numbers
\* The value NaN of a JavaScript number (also what JSON.stringify turns into
\* null: every use in the code treats null and NaN alike, through
\* parseFloat(x) || 0 or through truthiness).
NaN == -999999

IsNaN(x) == x = NaN

\* x || 0 on a number
OrZero(x) == IF IsNaN(x) THEN 0 ELSE x

\* if (x) on a number
Truthy(x) == ~IsNaN(x) /\ x # 0

Abs(x) == IF x < 0 THEN -x ELSE x

RECURSIVE GCD(_, _)
GCD(a, b) == IF b = 0 THEN a ELSE GCD(b, a % b)

\* the rational n/d in lowest terms, d > 0
R(n, d) ==
    LET g == GCD(Abs(n), Abs(d))
        s == IF d < 0 THEN -1 ELSE 1
    IN  [n |-> (s * n) \div g, d |-> (s * d) \div g]

RZero == [n |-> 0, d |-> 1]
RAdd(a, b) == R(a.n * b.d + b.n * a.d, a.d * b.d)
RMul(a, b) == R(a.n * b.n, a.d * b.d)
RDiv(a, b) == R(a.n * b.d, a.d * b.n)
RLess(a, b) == a.n * b.d < b.n * a.d

\* the value of a stored number (hundredths) as a rational
Num(x) == R(x, 100)

RECURSIVE RSum(_)
RSum(seq) == IF seq = <<>> THEN RZero ELSE RAdd(Head(seq), RSum(Tail(seq)))

\* ----------------------------------------------------------------- strings
Digits == <<"0", "1", "2", "3", "4", "5", "6", "7", "8", "9">>

IsDigit(c) == \E i \in 1..10 : Digits[i] = c

DigitVal(c) == (CHOOSE i \in 1..10 : Digits[i] = c) - 1

Upper == <<"A", "B", "P", "T">>
Lower == <<"a", "b", "p", "t">>

\* String.prototype.toLowerCase, over the alphabet the model's inputs use
LowerChar(c) ==
    IF \E i \in 1..Len(Upper) : Upper[i] = c
    THEN Lower[CHOOSE i \in 1..Len(Upper) : Upper[i] = c]
    ELSE c

toLowerCase(s) == [i \in 1..Len(s) |-> LowerChar(s[i])]

RECURSIVE TrimStart(_)
TrimStart(s) ==
    IF Len(s) > 0 /\ Head(s) = " " THEN TrimStart(Tail(s)) ELSE s

RECURSIVE TrimEnd(_)
TrimEnd(s) ==
    IF Len(s) > 0 /\ s[Len(s)] = " " THEN TrimEnd(SubSeq(s, 1, Len(s) - 1)) ELSE s

\* String.prototype.trim
trim(s) == TrimEnd(TrimStart(s))

\* String.prototype.split(sep): the pieces between the occurrences of sep;
\* the empty string splits into one empty piece.
RECURSIVE SplitFrom(_, _, _)
SplitFrom(s, sep, cur) ==
    IF Len(s) = 0 THEN <<cur>>
    ELSE IF Head(s) = sep THEN <<cur>> \o SplitFrom(Tail(s), sep, <<>>)
    ELSE SplitFrom(Tail(s), sep, Append(cur, Head(s)))

split(s, sep) == SplitFrom(s, sep, <<>>)

\* Array.prototype.join(sep)
RECURSIVE join(_, _)
join(parts, sep) ==
    IF Len(parts) = 0 THEN <<>>
    ELSE IF Len(parts) = 1 THEN parts[1]
    ELSE parts[1] \o <<sep>> \o join(Tail(parts), sep)

RECURSIVE TakeDigits(_)
TakeDigits(s) ==
    IF Len(s) > 0 /\ IsDigit(Head(s)) THEN <<Head(s)>> \o TakeDigits(Tail(s)) ELSE <<>>

RECURSIVE DigitsValue(_)
DigitsValue(ds) ==
    IF Len(ds) = 0 THEN 0
    ELSE DigitsValue(SubSeq(ds, 1, Len(ds) - 1)) * 10 + DigitVal(ds[Len(ds)])

\* parseFloat(string): leading blanks, an optional sign, digits, an optional
\* fraction; the longest such prefix is the value, NaN when it has no digit.
\* The value is in hundredths (further decimals are cut: the inputs of the
\* model have at most two).
parseFloat(s) ==
    LET t == TrimStart(s)
        neg == Len(t) > 0 /\ Head(t) = "-"
        u == IF Len(t) > 0 /\ (Head(t) = "-" \/ Head(t) = "+") THEN Tail(t) ELSE t
        ip == TakeDigits(u)
        rest == SubSeq(u, Len(ip) + 1, Len(u))
        fp == IF Len(rest) > 0 /\ Head(rest) = "." THEN TakeDigits(Tail(rest)) ELSE <<>>
        mag == DigitsValue(ip) * 100 + DigitsValue(SubSeq(fp \o <<"0", "0">>, 1, 2))
    IN  IF Len(ip) = 0 /\ Len(fp) = 0 THEN NaN
        ELSE IF neg THEN -mag ELSE mag

\* Number(string) used as an array index: the index, or -1 when the string is
\* no whole number >= 0 (an array has no element at such an index). The empty
\* or blank string is 0.
IndexOf(s) ==
    LET t == trim(s)
    IN  IF Len(t) = 0 THEN 0
        ELSE IF TakeDigits(t) = t THEN DigitsValue(t)
        ELSE -1

RECURSIVE NatToString(_)
NatToString(n) ==
    IF n < 10 THEN <<Digits[n + 1]>>
    ELSE NatToString(n \div 10) \o <<Digits[(n % 10) + 1]>>

\* `${number}`: the shortest decimal that reads back as the same number
numToString(x) ==
    IF IsNaN(x) THEN <<"N", "a", "N">>
    ELSE LET m == Abs(x)
             ip == NatToString(m \div 100)
             f == m % 100
             fs == IF f = 0 THEN <<>>
                   ELSE IF f % 10 = 0 THEN <<".", Digits[(f \div 10) + 1]>>
                   ELSE <<".", Digits[(f \div 10) + 1], Digits[(f % 10) + 1]>>
         IN  (IF x < 0 THEN <<"-">> ELSE <<>>) \o ip \o fs

\* ------------------------------------------------------------------- store
\* script.js:2-11
DefaultState ==
    [people |-> <<>>, items |-> <<>>, nextPersonId |-> 0, nextItemId |-> 0,
     tax |-> 0, tip |-> 1000, isTransposed |-> FALSE, undoStack |-> <<>>]

EmptyMap == [k \in {} |-> 0]

\* item.personQuantities || {}
PQ(item) ==
    IF "personQuantities" \in DOMAIN item THEN item.personQuantities ELSE EmptyMap

\* { ...item, personQuantities: pq }
WithPQ(item, pq) ==
    [k \in DOMAIN item \cup {"personQuantities"} |->
        IF k = "personQuantities" THEN pq ELSE item[k]]

\* obj[key] = value
MapSet(m, key, value) ==
    [k \in DOMAIN m \cup {key} |-> IF k = key THEN value ELSE m[k]]

\* delete obj[key]
MapDelete(m, key) == [k \in DOMAIN m \ {key} |-> m[k]]

\* Array.prototype.findIndex on the id: the first position holding id, 0 if none
FindIndex(seq, id) ==
    IF \E i \in 1..Len(seq) : seq[i].id = id
    THEN CHOOSE i \in 1..Len(seq) :
            seq[i].id = id /\ \A j \in 1..(i - 1) : seq[j].id # id
    ELSE 0

\* What a handler leaves behind: the store, and whether it reached saveState().
Saved(s) == [state |-> s, save |-> TRUE]
NotSaved(s) == [state |-> s, save |-> FALSE]

\* Object.values(item.personQuantities || {}).reduce((sum, qty) =>
\*     sum + (parseFloat(qty) || 0), 0), in hundredths
RECURSIVE SumOver(_, _)
SumOver(m, keys) ==
    IF keys = {} THEN 0
    ELSE LET k == CHOOSE x \in keys : TRUE
         IN  OrZero(m[k]) + SumOver(m, keys \ {k})

totalQuantities(item) == SumOver(PQ(item), DOMAIN PQ(item))

\* An add that numbers the new person by the length of the roster
handleAddPerson_idFromLength(s, raw) ==
    LET name == trim(raw)
    IN  IF Len(name) = 0 THEN NotSaved(s)
        ELSE IF \E i \in 1..Len(s.people) :
                    toLowerCase(s.people[i].name) = toLowerCase(name)
        THEN NotSaved(s)
        ELSE Saved([s EXCEPT !.people = Append(@, [id |-> Len(s.people), name |-> name]),
                             !.nextPersonId = @ + 1])

\* handleAddPerson comparing the names as typed, case and all
handleAddPerson_caseSensitive(s, raw) ==
    LET name == trim(raw)
    IN  IF Len(name) = 0 THEN NotSaved(s)
        ELSE IF \E i \in 1..Len(s.people) : s.people[i].name = name
        THEN NotSaved(s)
        ELSE Saved([s EXCEPT !.people = Append(@, [id |-> s.nextPersonId, name |-> name]),
                             !.nextPersonId = @ + 1])

\* script.js:161-174
handleAddPerson(s, raw) ==
    LET name == trim(raw)
    IN  IF Len(name) = 0 THEN NotSaved(s)
        ELSE IF \E i \in 1..Len(s.people) :
                    toLowerCase(s.people[i].name) = toLowerCase(name)
        THEN NotSaved(s)
        ELSE Saved([s EXCEPT !.people = Append(@, [id |-> s.nextPersonId, name |-> name]),
                             !.nextPersonId = @ + 1])

\* A filter that compares the text of each key with the number personId, and so
\* drops no key
RemovePersonKey_noParseInt(items, personId) ==
    [i \in 1..Len(items) |-> WithPQ(items[i], PQ(items[i]))]

\* script.js:199-205: the items with personId filtered out of every quantity map
RemovePersonKey(items, personId) ==
    [i \in 1..Len(items) |-> WithPQ(items[i], MapDelete(PQ(items[i]), personId))]

\* script.js:180-189: the (itemId, quantity) pairs saved for undo
CapturedQuantities(items, personId) ==
    LET held == SelectSeq(items,
                       LAMBDA it : personId \in DOMAIN PQ(it) /\ Truthy(PQ(it)[personId]))
    IN  [i \in 1..Len(held) |->
            [itemId |-> held[i].id, quantity |-> PQ(held[i])[personId]]]

\* script.js:176-209
deletePerson(s, personId) ==
    LET idx == FindIndex(s.people, personId)
    IN  IF idx = 0 THEN NotSaved(s)
        ELSE LET entry == [type |-> "person",
                           data |-> [person |-> s.people[idx],
                                     itemQuantities |->
                                        CapturedQuantities(s.items, personId)]]
             IN  Saved([s EXCEPT
                    !.undoStack = Append(@, entry),
                    !.people = SelectSeq(@, LAMBDA p : p.id # personId),
                    !.items = RemovePersonKey(@, personId)])

\* script.js:225-236, savePerson on the person editPersonName was opened for
\* (originalName is that person's name when the edit began; the commit runs on
\* blur or Enter, before any other handler can run)
editPersonName(s, personId, raw) ==
    LET idx == FindIndex(s.people, personId)
        newName == trim(raw)
    IN  IF idx = 0 THEN NotSaved(s)
        ELSE IF Len(newName) > 0 /\ newName # s.people[idx].name
        THEN Saved([s EXCEPT !.people[idx].name = newName])
        ELSE NotSaved(s)

\* handleAddItem taking the id of a new item from the length of the list
handleAddItem_idFromLength(s, rawName, rawPrice) ==
    LET name == trim(rawName)
        price == parseFloat(rawPrice)
    IN  IF Len(name) > 0 /\ ~IsNaN(price) /\ price > 0
        THEN IF \E i \in 1..Len(s.items) :
                    toLowerCase(s.items[i].name) = toLowerCase(name)
             THEN NotSaved(s)
             ELSE Saved([s EXCEPT
                    !.items = Append(@, [id |-> Len(s.items), name |-> name,
                                         price |-> price,
                                         personQuantities |-> EmptyMap]),
                    !.nextItemId = @ + 1])
        ELSE NotSaved(s)

\* script.js:243-267
handleAddItem(s, rawName, rawPrice) ==
    LET name == trim(rawName)
        price == parseFloat(rawPrice)
    IN  IF Len(name) > 0 /\ ~IsNaN(price) /\ price > 0
        THEN IF \E i \in 1..Len(s.items) :
                    toLowerCase(s.items[i].name) = toLowerCase(name)
             THEN NotSaved(s)
             ELSE Saved([s EXCEPT
                    !.items = Append(@, [id |-> s.nextItemId, name |-> name,
                                         price |-> price,
                                         personQuantities |-> EmptyMap]),
                    !.nextItemId = @ + 1])
        ELSE NotSaved(s)

\* script.js:269-283
deleteItem(s, itemId) ==
    LET idx == FindIndex(s.items, itemId)
    IN  IF idx = 0 THEN NotSaved(s)
        ELSE Saved([s EXCEPT
                !.undoStack = Append(@, [type |-> "item", data |-> s.items[idx]]),
                !.items = SelectSeq(@, LAMBDA it : it.id # itemId)])

\* script.js:285-301
updatePersonQuantity(s, itemId, personId, raw) ==
    LET idx == FindIndex(s.items, itemId)
        numQuantity == OrZero(parseFloat(raw))
    IN  IF idx = 0 THEN NotSaved(s)
        ELSE Saved([s EXCEPT !.items[idx] =
                WithPQ(@, IF numQuantity > 0
                          THEN MapSet(PQ(@), personId, numQuantity)
                          ELSE MapDelete(PQ(@), personId))])

\* script.js:303-315
splitEvenly(s, itemId) ==
    LET idx == FindIndex(s.items, itemId)
    IN  IF idx = 0 \/ Len(s.people) = 0 THEN NotSaved(s)
        ELSE Saved([s EXCEPT !.items[idx] =
                WithPQ(@, [k \in {s.people[i].id : i \in 1..Len(s.people)} |-> 100])])

\* script.js:317-325
clearAllQuantities(s, itemId) ==
    LET idx == FindIndex(s.items, itemId)
    IN  IF idx = 0 THEN NotSaved(s)
        ELSE Saved([s EXCEPT !.items[idx] = WithPQ(@, EmptyMap)])

\* script.js:141-147: the captured quantities put back on the items that exist
RECURSIVE RestoreQuantities(_, _, _)
RestoreQuantities(items, personId, pairs) ==
    IF Len(pairs) = 0 THEN items
    ELSE LET idx == FindIndex(items, Head(pairs).itemId)
             next == IF idx = 0 THEN items
                     ELSE [items EXCEPT ![idx] =
                            WithPQ(@, MapSet(PQ(@), personId, Head(pairs).quantity))]
         IN  RestoreQuantities(next, personId, Tail(pairs))

\* script.js:132-158
performUndo(s) ==
    IF Len(s.undoStack) = 0 THEN NotSaved(s)
    ELSE LET action == s.undoStack[Len(s.undoStack)]
             popped == [s EXCEPT !.undoStack = SubSeq(@, 1, Len(@) - 1)]
         IN  IF action.type = "person"
             THEN Saved([popped EXCEPT
                    !.people = Append(@, action.data.person),
                    !.items = RestoreQuantities(@, action.data.person.id,
                                                action.data.itemQuantities)])
             ELSE Saved([popped EXCEPT !.items = Append(@, action.data)])

\* script.js:533-537
toggleTranspose(s) == Saved([s EXCEPT !.isTransposed = ~@])

\* A debounced update that leaves the rate as it was
taxUpdate_rateKept(s, raw) == Saved(s)

\* script.js:71-75, the debounced update with the text the tax input holds
taxUpdate(s, raw) == Saved([s EXCEPT !.tax = OrZero(parseFloat(raw))])

\* script.js:77-81
tipUpdate(s, raw) == Saved([s EXCEPT !.tip = OrZero(parseFloat(raw))])

\* saveItem without the test that the new price is not negative
editItem_negativePrice(s, itemId, rawName, rawPrice) ==
    LET idx == FindIndex(s.items, itemId)
        newName == trim(rawName)
        newPrice == parseFloat(rawPrice)
    IN  IF idx = 0 THEN NotSaved(s)
        ELSE LET item == s.items[idx]
                 nameChanges == Len(newName) > 0 /\ newName # item.name
                 priceChanges == ~IsNaN(newPrice) /\ newPrice # item.price
                 named == IF nameChanges THEN [item EXCEPT !.name = newName] ELSE item
                 priced == IF priceChanges THEN [named EXCEPT !.price = newPrice] ELSE named
             IN  IF nameChanges \/ priceChanges
                 THEN Saved([s EXCEPT !.items[idx] = priced])
                 ELSE NotSaved(s)

\* script.js:406-428, saveItem on the item editItem was opened for
editItem(s, itemId, rawName, rawPrice) ==
    LET idx == FindIndex(s.items, itemId)
        newName == trim(rawName)
        newPrice == parseFloat(rawPrice)
    IN  IF idx = 0 THEN NotSaved(s)
        ELSE LET item == s.items[idx]
                 nameChanges == Len(newName) > 0 /\ newName # item.name
                 priceChanges == ~IsNaN(newPrice) /\ newPrice >= 0 /\ newPrice # item.price
                 named == IF nameChanges THEN [item EXCEPT !.name = newName] ELSE item
                 priced == IF priceChanges THEN [named EXCEPT !.price = newPrice] ELSE named
             IN  IF nameChanges \/ priceChanges
                 THEN Saved([s EXCEPT !.items[idx] = priced])
                 ELSE NotSaved(s)

\* ----------------------------------------------------------------- shuffle
\* The values Math.random() takes in the model, as fractions in [0, 1)
Fractions == {[n |-> 0, d |-> 1], [n |-> 1, d |-> 2]}

\* The random draws shuffleQuantities makes for one item and n people: the
\* n-1 fractions of script.js:352 and the n-1 indices j of script.js:362
\* (js[i] is the j drawn for array index i, 0 <= j <= i).
ItemDraws(n) ==
    [fr : [1..(n - 1) -> Fractions],
     js : {f \in [1..(n - 1) -> 0..(n - 1)] : \A i \in 1..(n - 1) : f[i] <= i}]

\* CutQuantities with each amount drawn from the whole total, the remaining
\* quantity never reduced
RECURSIVE CutQuantities_remainingKept(_, _, _)
CutQuantities_remainingKept(remaining, fr, i) ==
    IF i > Len(fr) THEN <<remaining>>
    ELSE <<RMul(fr[i], remaining)>> \o CutQuantities_remainingKept(remaining, fr, i + 1)

\* script.js:345-358: the n amounts cut from total (rationals, in hundredths)
RECURSIVE CutQuantities(_, _, _)
CutQuantities(remaining, fr, i) ==
    IF i > Len(fr) THEN <<remaining>>
    ELSE LET randomQty == RMul(fr[i], remaining)
         IN  <<randomQty>> \o
             CutQuantities(RAdd(remaining, RMul(R(-1, 1), randomQty)), fr, i + 1)

Swap(a, i, j) == [a EXCEPT ![i] = a[j], ![j] = a[i]]

\* script.js:361-364: Fisher-Yates, i from the last index down to 1 (0-based)
RECURSIVE FisherYates(_, _, _)
FisherYates(a, js, i) ==
    IF i < 1 THEN a
    ELSE FisherYates(Swap(a, i + 1, js[i] + 1), js, i - 1)

\* Math.round(x) of a rational: the nearest integer, halves up
Round(x) == (2 * x.n + x.d) \div (2 * x.d)

\* An assignment that files the amounts under the positions in the roster
AssignShuffled_byPosition(people, amounts) ==
    LET kept == {i \in 1..Len(people) : RLess(R(1, 1), amounts[i])}
    IN  [k \in {i - 1 : i \in kept} |-> Round(amounts[k + 1])]

\* script.js:367-375: the amounts above 0.01, rounded to two decimals, by person
AssignShuffled(people, amounts) ==
    LET kept == {i \in 1..Len(people) : RLess(R(1, 1), amounts[i])}
        \* a later person with the same id overwrites an earlier one
        last(id) == CHOOSE i \in kept :
                        people[i].id = id /\ \A j \in kept : people[j].id = id => j <= i
    IN  [id \in {people[i].id : i \in kept} |-> Round(amounts[last(id)])]

ShuffleItem(people, item, draw) ==
    LET totalQuantity == totalQuantities(item)
    IN  IF totalQuantity = 0 THEN item
        ELSE LET cut == CutQuantities(R(totalQuantity, 1), draw.fr, 1)
                 randomQuantities == FisherYates(cut, draw.js, Len(people) - 1)
             IN  WithPQ(item, AssignShuffled(people, randomQuantities))

\* script.js:327-382; draws[i] are the random draws made for item i
shuffleQuantities(s, draws) ==
    IF Len(s.people) = 0 \/ Len(s.items) = 0 THEN NotSaved(s)
    ELSE Saved([s EXCEPT !.items =
            [i \in 1..Len(s.items) |-> ShuffleItem(s.people, s.items[i], draws[i])]])

\* ------------------------------------------------------ allocation engine
\* script.js:560-566: what item adds to the subtotal of the person at position
\* j of personTotals. personTotals.find takes the first person with the id.
Share(people, item, j) ==
    LET pq == PQ(item)
        id == people[j].id
        total == totalQuantities(item)
    IN  IF /\ "personQuantities" \in DOMAIN item
           /\ total > 0
           /\ id \in DOMAIN pq
           /\ FindIndex(people, id) = j
           /\ OrZero(pq[id]) > 0
        THEN RMul(Num(OrZero(pq[id])), RDiv(Num(item.price), Num(total)))
        ELSE RZero

\* A breakdown that charges the tax rate a second time in place of the tip rate
personFigures_tipAtTaxRate(person, sub, taxRate, tipRate) ==
    LET personTax == RMul(sub, taxRate)
        personTip == RMul(sub, taxRate)
    IN  [id |-> person.id, name |-> person.name, subtotal |-> sub,
         tax |-> personTax, tip |-> personTip,
         total |-> RAdd(RAdd(sub, personTax), personTip)]

\* script.js:706-708 (and 594-596): the figures of one person
personFigures(person, sub, taxRate, tipRate) ==
    LET personTax == RMul(sub, taxRate)
        personTip == RMul(sub, tipRate)
    IN  [id |-> person.id, name |-> person.name, subtotal |-> sub,
         tax |-> personTax, tip |-> personTip,
         total |-> RAdd(RAdd(sub, personTax), personTip)]

\* A bill summary whose grand total leaves the tips out
grandTotal_withoutTip(personTotals) ==
    RSum([j \in 1..Len(personTotals) |->
            RAdd(personTotals[j].subtotal, personTotals[j].tax)])

\* script.js:737-742: the grand total adds up subtotal + tax + tip of each person
grandTotal(personTotals) ==
    RSum([j \in 1..Len(personTotals) |->
            RAdd(RAdd(personTotals[j].subtotal, personTotals[j].tax),
                 personTotals[j].tip)])

\* script.js:539-570 and 734-742: the figures of the breakdown
calculateAndRenderSplit(s) ==
    IF Len(s.people) = 0
    THEN [empty |-> TRUE, shares |-> <<>>, personTotals |-> <<>>,
          totalBillSubtotal |-> RZero, totalTax |-> RZero, totalTip |-> RZero,
          grandTotal |-> RZero]
    ELSE LET taxRate == R(OrZero(s.tax), 100 * 100)
             tipRate == R(OrZero(s.tip), 100 * 100)
             np == Len(s.people)
             ni == Len(s.items)
             shares == [i \in 1..ni |-> [j \in 1..np |-> Share(s.people, s.items[i], j)]]
             personTotals ==
                [j \in 1..np |->
                    personFigures(s.people[j], RSum([i \in 1..ni |-> shares[i][j]]),
                                  taxRate, tipRate)]
             totalBillSubtotal == RSum([i \in 1..ni |-> Num(s.items[i].price)])
         IN  [empty |-> FALSE, shares |-> shares, personTotals |-> personTotals,
              totalBillSubtotal |-> totalBillSubtotal,
              totalTax |-> RMul(totalBillSubtotal, taxRate),
              totalTip |-> RMul(totalBillSubtotal, tipRate),
              grandTotal |-> grandTotal(personTotals)]

\* ------------------------------------------------------ breakdown tables
\* A cell that shows the unit price whatever the quantity
transposedCell_unitPrice(item, person) ==
    LET total == totalQuantities(item)
        pricePerUnit == IF total > 0 THEN RDiv(Num(item.price), Num(total)) ELSE RZero
        pq == PQ(item)
    IN  IF person.id \in DOMAIN pq /\ Truthy(pq[person.id]) /\ OrZero(pq[person.id]) > 0
        THEN <<[quantity |-> OrZero(pq[person.id]), amount |-> pricePerUnit]>>
        ELSE <<>>

\* script.js:602-613: the cell of item in the row of person, people as rows;
\* <<>> is the cell showing "-"
transposedCell(item, person) ==
    LET total == totalQuantities(item)
        pricePerUnit == IF total > 0 THEN RDiv(Num(item.price), Num(total)) ELSE RZero
        pq == PQ(item)
    IN  IF person.id \in DOMAIN pq /\ Truthy(pq[person.id]) /\ OrZero(pq[person.id]) > 0
        THEN <<[quantity |-> OrZero(pq[person.id]),
                amount |-> RMul(Num(OrZero(pq[person.id])), pricePerUnit)]>>
        ELSE <<>>

\* script.js:576-652: the table with people as rows. The item totals row
\* (627-643) adds up quantity * pricePerUnit of every person whose quantity
\* is above zero.
transposedView(s) ==
    LET taxRate == R(OrZero(s.tax), 100 * 100)
        tipRate == R(OrZero(s.tip), 100 * 100)
        personTotals == calculateAndRenderSplit(s).personTotals
        np == Len(s.people)
        ni == Len(s.items)
        itemTotal(item) ==
            LET total == totalQuantities(item)
                pricePerUnit == IF total > 0 THEN RDiv(Num(item.price), Num(total))
                                ELSE RZero
                pq == PQ(item)
            IN  RSum([j \in 1..np |->
                    IF s.people[j].id \in DOMAIN pq /\ OrZero(pq[s.people[j].id]) > 0
                    THEN RMul(Num(OrZero(pq[s.people[j].id])), pricePerUnit)
                    ELSE RZero])
    IN  [rows |-> [j \in 1..np |->
            LET sub == personTotals[j].subtotal
                personTax == RMul(sub, taxRate)
                personTip == RMul(sub, tipRate)
            IN  [cells |-> [i \in 1..ni |-> transposedCell(s.items[i], s.people[j])],
                 subtotal |-> sub, tax |-> personTax, tip |-> personTip,
                 total |-> RAdd(RAdd(sub, personTax), personTip)]],
         itemTotals |-> [i \in 1..ni |-> itemTotal(s.items[i])]]

\* script.js:670-688: the cell of person in the row of item, items as rows
originalCell(item, person) ==
    LET total == totalQuantities(item)
        pricePerUnit == IF total > 0 THEN RDiv(Num(item.price), Num(total)) ELSE RZero
        pq == PQ(item)
    IN  IF person.id \in DOMAIN pq /\ Truthy(pq[person.id]) /\ OrZero(pq[person.id]) > 0
        THEN <<[quantity |-> OrZero(pq[person.id]),
                amount |-> RMul(Num(OrZero(pq[person.id])), pricePerUnit)]>>
        ELSE <<>>

\* script.js:655-731: the table with items as rows. The item total of a row
\* (676-690) adds up the amounts of the cells the row shows; the summary rows
\* (697-729) give subtotal, tax, tip and total of each person.
originalView(s) ==
    LET taxRate == R(OrZero(s.tax), 100 * 100)
        tipRate == R(OrZero(s.tip), 100 * 100)
        personTotals == calculateAndRenderSplit(s).personTotals
        np == Len(s.people)
        ni == Len(s.items)
        row(item) == [j \in 1..np |-> originalCell(item, s.people[j])]
        shown(cells) == [j \in 1..np |->
                            IF cells[j] = <<>> THEN RZero ELSE cells[j][1].amount]
    IN  [rows |-> [i \in 1..ni |->
            [cells |-> row(s.items[i]), itemTotal |-> RSum(shown(row(s.items[i])))]],
         summary |-> [j \in 1..np |->
            LET sub == personTotals[j].subtotal
                personTax == RMul(sub, taxRate)
                personTip == RMul(sub, tipRate)
            IN  [subtotal |-> sub, tax |-> personTax, tip |-> personTip,
                 total |-> RAdd(RAdd(sub, personTax), personTip)]]]

\* ---------------------------------------------------------- shareable link
\* The query parameters of a link: the text of p, i, q, tax and tip. A parameter
\* that is absent is the empty text: the code only tests a parameter for
\* truthiness or hands it to parseFloat, and null and '' behave alike there.
\* The legacy `data` parameter (script.js:850-854) is absent from every link.
NoParams == [p |-> <<>>, i |-> <<>>, q |-> <<>>, tax |-> <<>>, tip |-> <<>>]

\* script.js:797-806: the "itemIdx-personIdx:qty" triples, item by item
RECURSIVE QuantityTriples(_, _, _)
QuantityTriples(people, items, itemIdx) ==
    IF itemIdx > Len(items) THEN <<>>
    ELSE LET item == items[itemIdx]
             held == IF "personQuantities" \in DOMAIN item
                     THEN SelectSeq([j \in 1..Len(people) |-> j],
                            LAMBDA j : /\ people[j].id \in DOMAIN item.personQuantities
                                       /\ Truthy(item.personQuantities[people[j].id]))
                     ELSE <<>>
         IN  [k \in 1..Len(held) |->
                 NatToString(itemIdx - 1) \o <<"-">>
                 \o NatToString(held[k] - 1) \o <<":">>
                 \o numToString(item.personQuantities[people[held[k]].id])]
             \o QuantityTriples(people, items, itemIdx + 1)

\* script.js:780-820
generateShareableURL(s) ==
    [p |-> join([j \in 1..Len(s.people) |-> s.people[j].name], ","),
     i |-> join([k \in 1..Len(s.items) |->
                    s.items[k].name \o <<":">> \o numToString(s.items[k].price)], ";"),
     q |-> join(QuantityTriples(s.people, s.items, 1), ";"),
     tax |-> IF Truthy(s.tax) THEN numToString(s.tax) ELSE <<>>,
     tip |-> IF Truthy(s.tip) THEN numToString(s.tip) ELSE <<>>]

\* array[i] for a 0-based index i, <<>> standing for undefined
At(seq, i) == IF i >= 0 /\ i < Len(seq) THEN <<seq[i + 1]>> ELSE <<>>

\* parseFloat of a piece that may be undefined
ParsePiece(pieces, i) ==
    IF Len(At(pieces, i)) = 0 THEN NaN ELSE parseFloat(At(pieces, i)[1])

\* ApplyTriples giving the quantity of a triple whose person index is past the
\* end of the list to the last person
RECURSIVE ApplyTriples_lastPerson(_, _, _)
ApplyTriples_lastPerson(people, items, triples) ==
    IF Len(triples) = 0 THEN items
    ELSE LET parts == split(Head(triples), ":")
             indices == split(parts[1], "-")
             itemIdx == IndexOf(indices[1])
             named == IF Len(indices) >= 2 THEN IndexOf(indices[2]) ELSE -1
             personIdx == IF named >= Len(people) THEN Len(people) - 1 ELSE named
             next ==
                IF Len(At(items, itemIdx)) = 1 /\ Len(At(people, personIdx)) = 1
                THEN [items EXCEPT ![itemIdx + 1].personQuantities =
                        MapSet(@, people[personIdx + 1].id, ParsePiece(parts, 1))]
                ELSE items
         IN  ApplyTriples_lastPerson(people, next, Tail(triples))

\* script.js:899-907: the triples applied in order to the decoded items
RECURSIVE ApplyTriples(_, _, _)
ApplyTriples(people, items, triples) ==
    IF Len(triples) = 0 THEN items
    ELSE LET parts == split(Head(triples), ":")
             indices == split(parts[1], "-")
             itemIdx == IndexOf(indices[1])
             personIdx == IF Len(indices) >= 2 THEN IndexOf(indices[2]) ELSE -1
             next ==
                IF Len(At(items, itemIdx)) = 1 /\ Len(At(people, personIdx)) = 1
                THEN [items EXCEPT ![itemIdx + 1].personQuantities =
                        MapSet(@, people[personIdx + 1].id, ParsePiece(parts, 1))]
                ELSE items
         IN  ApplyTriples(people, next, Tail(triples))

\* script.js:845-916: <<>> for null, else <<newState>>
loadStateFromURL(params) ==
    IF Len(params.p) = 0 /\ Len(params.i) = 0 THEN <<>>
    ELSE LET names == IF Len(params.p) > 0 THEN split(params.p, ",") ELSE <<>>
             people == [j \in 1..Len(names) |-> [id |-> j - 1, name |-> trim(names[j])]]
             itemStrs == IF Len(params.i) > 0 THEN split(params.i, ";") ELSE <<>>
             items == [k \in 1..Len(itemStrs) |->
                        LET parts == split(itemStrs[k], ":")
                        IN  [id |-> k - 1, name |-> trim(parts[1]),
                             price |-> OrZero(ParsePiece(parts, 1)),
                             personQuantities |-> EmptyMap]]
             withQuantities ==
                IF Len(params.q) > 0 /\ Len(items) > 0 /\ Len(people) > 0
                THEN ApplyTriples(people, items, split(params.q, ";"))
                ELSE items
             tip == parseFloat(params.tip)
         IN  <<[people |-> people, items |-> withQuantities,
                nextPersonId |-> Len(people), nextItemId |-> Len(items),
                tax |-> OrZero(parseFloat(params.tax)),
                tip |-> IF Truthy(tip) THEN tip ELSE 1000]>>

\* ------------------------------------------------------------ startup load
Without(rec, field) == [k \in DOMAIN rec \ {field} |-> rec[k]]

\* MigrateItem giving each person the share amount / totalAmount, not
\* multiplied by the number of people
MigrateItem_shareOfOne(item) ==
    LET has(f) == f \in DOMAIN item
    IN  IF has("sharedBy") /\ ~has("personQuantities") /\ ~has("personAmounts")
        THEN WithPQ(Without(item, "sharedBy"), [id \in item.sharedBy |-> 100])
        ELSE IF has("personAmounts") /\ ~has("personQuantities")
        THEN LET pa == item.personAmounts
                 keys == DOMAIN pa
                 n == Cardinality(keys)
                 first == IF n = 0 THEN 0
                          ELSE pa[CHOOSE k \in keys : \A o \in keys : k <= o]
                 allEqualAmounts == n > 0 /\ \A k \in keys : Abs(pa[k] - first) < 1
                 totalAmount == SumOver(pa, keys)
             IN  WithPQ(Without(item, "personAmounts"),
                    [id \in keys |->
                        IF allEqualAmounts THEN 100
                        ELSE IF totalAmount > 0
                        THEN (pa[id] * 100) \div totalAmount
                        ELSE 100])
        ELSE item

\* script.js:953-983: one item of a loaded snapshot brought to personQuantities.
\* A quantity backed out of unequal amounts is cut to the hundredth.
MigrateItem(item) ==
    LET has(f) == f \in DOMAIN item
    IN  IF has("sharedBy") /\ ~has("personQuantities") /\ ~has("personAmounts")
        THEN WithPQ(Without(item, "sharedBy"), [id \in item.sharedBy |-> 100])
        ELSE IF has("personAmounts") /\ ~has("personQuantities")
        THEN LET pa == item.personAmounts
                 keys == DOMAIN pa
                 n == Cardinality(keys)
                 first == IF n = 0 THEN 0
                          ELSE pa[CHOOSE k \in keys : \A o \in keys : k <= o]
                 allEqualAmounts == n > 0 /\ \A k \in keys : Abs(pa[k] - first) < 1
                 totalAmount == SumOver(pa, keys)
             IN  WithPQ(Without(item, "personAmounts"),
                    [id \in keys |->
                        IF allEqualAmounts THEN 100
                        ELSE IF totalAmount > 0
                        THEN (pa[id] * n * 100) \div totalAmount
                        ELSE 100])
        ELSE item

\* rec.field, or the value used when the field is undefined
Field(rec, field, default) == IF field \in DOMAIN rec THEN rec[field] ELSE default

\* LoadChosen leaving the query parameters in the address bar when the stored
\* snapshot is chosen over the link
LoadChosen_linkKept(s, params, urlState, stored, useURLData) ==
    LET fromURL == Len(urlState) > 0 /\ (Len(stored) = 0 \/ useURLData)
        loaded == IF fromURL THEN urlState ELSE stored
    IN  IF Len(loaded) = 0 THEN [state |-> s, location |-> params]
        ELSE LET loadedState == loaded[1]
                 loadedItems == Field(loadedState, "items", <<>>)
             IN  [state |->
                    [people |-> Field(loadedState, "people", <<>>),
                     items |-> [k \in 1..Len(loadedItems) |-> MigrateItem(loadedItems[k])],
                     nextPersonId |-> Field(loadedState, "nextPersonId", 0),
                     nextItemId |-> Field(loadedState, "nextItemId", 0),
                     tax |-> Field(loadedState, "tax", 0),
                     tip |-> Field(loadedState, "tip", 1000),
                     isTransposed |-> Field(loadedState, "isTransposed", FALSE),
                     undoStack |-> IF fromURL THEN <<>>
                                   ELSE Field(loadedState, "undoStack", <<>>)],
                  location |-> IF fromURL THEN NoParams ELSE params]

\* script.js:925-1006: the source chosen among urlState and the localStorage
\* entry stored, migrated and assigned to the store. useURLData is the answer
\* to confirm() when both sources hold data. Gives the store and the query
\* parameters left in the address bar.
LoadChosen(s, params, urlState, stored, useURLData) ==
    LET both == Len(urlState) = 1 /\ Len(stored) = 1
        fromURL == Len(urlState) = 1 /\ (Len(stored) = 0 \/ useURLData)
        loaded == IF fromURL THEN urlState ELSE stored
    IN  IF Len(loaded) = 0 THEN [state |-> s, location |-> params]
        ELSE LET loadedState == loaded[1]
                 loadedItems == Field(loadedState, "items", <<>>)
             IN  [state |->
                    [people |-> Field(loadedState, "people", <<>>),
                     items |-> [k \in 1..Len(loadedItems) |-> MigrateItem(loadedItems[k])],
                     nextPersonId |-> Field(loadedState, "nextPersonId", 0),
                     nextItemId |-> Field(loadedState, "nextItemId", 0),
                     tax |-> Field(loadedState, "tax", 0),
                     tip |-> Field(loadedState, "tip", 1000),
                     isTransposed |-> Field(loadedState, "isTransposed", FALSE),
                     undoStack |-> IF fromURL THEN <<>>
                                   ELSE Field(loadedState, "undoStack", <<>>)],
                  location |-> IF fromURL \/ both THEN NoParams ELSE params]

\* script.js:925-943: whether the store is loaded from the link
FromURL(urlState, stored, useURLData) ==
    urlState # <<>> /\ (stored = <<>> \/ useURLData)

\* script.js:925-943: the branch loadState takes: 0 with no source, 1 with the
\* link alone, 2 with the stored snapshot alone, 3 and 4 with both and the
\* link or the snapshot chosen
LoadCase(urlState, stored, useURLData) ==
    IF urlState # <<>> /\ stored # <<>> THEN (IF useURLData THEN 3 ELSE 4)
    ELSE IF urlState # <<>> THEN 1
    ELSE IF stored # <<>> THEN 2
    ELSE 0

\* script.js:918-1012. stored is the localStorage entry.
loadState(s, params, stored, useURLData) ==
    LoadChosen(s, params, loadStateFromURL(params), stored, useURLData)

\* script.js:770-777: JSON.stringify(state) written to localStorage
saveState(s) == <<s>>

\* clearState leaving the undo stack as it was
clearState_keepsUndoStack(s) ==
    [state |-> [DefaultState EXCEPT !.undoStack = s.undoStack],
     localStorage |-> <<>>, location |-> NoParams]

\* script.js:1014-1043: the store, the localStorage entry and the query
\* parameters after clearState
clearState(s) == [state |-> DefaultState, localStorage |-> <<>>, location |-> NoParams]

\* ------------------------------------------------------------------ inputs
\* What the user types, and the links and stored snapshots a page is opened on
sAmy == <<"A", "m", "y">>
sBo == <<"B", "o">>
sPizza == <<"P", "i", "z", "z", "a">>
sTea == <<"T", "e", "a">>

PersonNameInputs == {sAmy, sBo, <<" ">>}

\* (name, price) as typed into the two item boxes
ItemInputs ==
    {<<sPizza, <<"2", "0">>>>, <<sTea, <<"5">>>>,
     <<sTea \o <<" ">>, <<"x">>>>, <<<<>>, <<"5">>>>}

\* (name, price) as left in the two boxes of an item edit
ItemEdits == {<<sPizza, <<"2", "0">>>>, <<<<" ">>, <<"-", "1">>>>}

QuantityInputs == {<<"1">>, <<"0">>, <<"x">>}
RateInputs == {<<"1", "0">>, <<"0">>, <<>>, <<"-", "5">>}

\* Hand-written links: a negative quantity; a zero and an unparseable quantity
\* with a triple whose person index and one whose item index is out of range
LinkInputs ==
    {NoParams,
     [p |-> sAmy \o <<",">> \o sBo, i |-> sPizza \o <<":", "2", "0">>,
      q |-> <<"0", "-", "0", ":", "2", ";", "0", "-", "1", ":", "-", "1">>,
      tax |-> <<"7", ".", "5">>, tip |-> <<>>],
     [p |-> sAmy \o <<",">> \o sBo, i |-> sPizza \o <<":", "2", "0">>,
      q |-> <<"0", "-", "0", ":", "0", ";", "0", "-", "1", ":", "x", ";",
              "0", "-", "2", ":", "1", ";", "1", "-", "0", ":", "1">>,
      tax |-> <<>>, tip |-> <<>>]}

\* A snapshot persisted by an earlier version of the page: one item shared
\* through the sharedBy list, one through personAmounts
LegacySnapshot ==
    [people |-> <<[id |-> 0, name |-> sAmy], [id |-> 1, name |-> sBo]>>,
     items |-> <<[id |-> 0, name |-> sPizza, price |-> 2000, sharedBy |-> {0, 1}],
                 [id |-> 1, name |-> sTea, price |-> 500,
                  personAmounts |-> [k \in {0, 1} |-> IF k = 0 THEN 125 ELSE 375]]>>,
     nextPersonId |-> 2, nextItemId |-> 2, tax |-> 0, tip |-> 1000]

StoredInputs == {<<>>, <<LegacySnapshot>>}

\* The ids a click can carry
Ids == 0..(MaxId - 1)

PersonIds(s) == {s.people[j].id : j \in 1..Len(s.people)}

\* The model shuffles whole quantities only, of at most MaxUnits units an
\* item, so that the values a shuffle leaves are not cut again and again and
\* the quantity a shuffle piles on one person stays bounded
ShuffleBound(s) ==
    \A i \in 1..Len(s.items) :
        /\ totalQuantities(s.items[i]) <= MaxUnits * 100
        /\ \A k \in DOMAIN PQ(s.items[i]) : OrZero(PQ(s.items[i])[k]) % 100 = 0

\* ----------------------------------------------------------------- actions
\* No item edit is open
NoEdit == <<>>

\* One rate input: the text it holds, the ticks left on the timer of its
\* debounced update (<<>> when none is set), and history: the ticks since its
\* last input event, the input events of the burst under way (a burst begins
\* with an input event that finds no timer set), the updates run since the
\* burst began, and the input events so far
NoTimer ==
    [value |-> <<>>, timeout |-> <<>>, since |-> 0, burst |-> 0, runs |-> 0,
     events |-> 0]
NoTimers == [tax |-> NoTimer, tip |-> NoTimer]

Op(name) == [op |-> name, a |-> -1, pre |-> <<>>]
Other == Op("other")

\* A handler that ran to r: the store, and the snapshot written if it saved
Ran(r, op) ==
    /\ state' = r.state
    /\ localStorage' = IF r.save THEN saveState(r.state) ELSE localStorage
    /\ lastOp' = op
    /\ UNCHANGED location

\* A handler that ran with no item edit open; it leaves the rate inputs alone
Handled(r, op) == Ran(r, op) /\ UNCHANGED <<editing, debounced>>

AddPerson ==
    \E raw \in PersonNameInputs :
        /\ Len(state.people) < MaxPeople
        /\ state.nextPersonId < MaxId
        /\ Handled(handleAddPerson(state, raw), Other)

\* script.js:200-205 puts new item objects in state.items: the item an open
\* edit holds (script.js:385) is no longer an item of the store
DeletePerson ==
    \E id \in Ids :
        /\ Len(state.undoStack) < MaxUndo
        /\ Ran(deletePerson(state, id),
               IF FindIndex(state.people, id) = 0 THEN Other
               ELSE [op |-> "deletePerson", a |-> id,
                     pre |-> <<[people |-> state.people, items |-> state.items]>>])
        /\ editing' = IF editing # NoEdit /\ FindIndex(state.people, id) # 0
                      THEN <<[editing[1] EXCEPT !.live = FALSE]>>
                      ELSE editing
        /\ UNCHANGED debounced

EditPersonName ==
    \E id \in Ids, raw \in PersonNameInputs :
        Handled(editPersonName(state, id, raw), Other)

AddItem ==
    \E in \in ItemInputs :
        /\ Len(state.items) < MaxItems
        /\ state.nextItemId < MaxId
        /\ Handled(handleAddItem(state, in[1], in[2]), Other)

DeleteItem ==
    \E id \in Ids :
        /\ Len(state.undoStack) < MaxUndo
        /\ Handled(deleteItem(state, id), Other)

\* The quantity boxes are rendered for the people of the roster
\* (script.js:467-487)
UpdatePersonQuantity ==
    \E itemId \in Ids, personId \in PersonIds(state), raw \in QuantityInputs :
        Handled(updatePersonQuantity(state, itemId, personId, raw),
                Other)

SplitEvenly ==
    \E id \in Ids : Handled(splitEvenly(state, id), Other)

ClearAllQuantities ==
    \E id \in Ids : Handled(clearAllQuantities(state, id), Other)

ShuffleQuantities ==
    /\ ShuffleBound(state)
    /\ \E draws \in [1..Len(state.items) -> ItemDraws(Len(state.people))] :
        Handled(shuffleQuantities(state, draws), Other)

EditItem ==
    \E id \in Ids, in \in ItemEdits :
        Handled(editItem(state, id, in[1], in[2]), Other)

\* The bounds of the model keep an undo from growing a list past its bound.
PerformUndo ==
    /\ Len(state.undoStack) > 0 =>
        LET top == state.undoStack[Len(state.undoStack)]
        IN  IF top.type = "person" THEN Len(state.people) < MaxPeople
            ELSE Len(state.items) < MaxItems
    /\ Handled(performUndo(state),
               IF lastOp.op = "deletePerson" /\ Len(lastOp.pre) = 1
               THEN [lastOp EXCEPT !.op = "performUndo"]
               ELSE Other)

ToggleTranspose == Handled(toggleTranspose(state), Other)

TaxUpdate == \E raw \in RateInputs : Handled(taxUpdate(state, raw), Other)

TipUpdate == \E raw \in RateInputs : Handled(tipUpdate(state, raw), Other)

\* script.js:822-843: the link goes to the clipboard unless the store is empty
\* (generateShareableURL does not fail in the model). The clipboard is no
\* variable: the link copied is generateShareableURL(state) for as long as
\* lastOp is copyShareLink.
CopyShareLink ==
    /\ ~(Len(state.people) = 0 /\ Len(state.items) = 0)
    /\ lastOp' = Op("copyShareLink")
    /\ UNCHANGED <<state, localStorage, location, editing, debounced>>

ClearState ==
    LET r == clearState(state)
    IN  /\ state' = r.state
        /\ localStorage' = r.localStorage
        /\ location' = r.location
        /\ lastOp' = Other
        /\ UNCHANGED <<editing, debounced>>

\* The links an open page leads to: the address bar as it is (a reload), or the
\* link just copied
Links ==
    {location}
    \cup (IF lastOp.op = "copyShareLink" THEN {generateShareableURL(state)} ELSE {})

\* The page is opened (or reloaded) on a link: the script starts from the
\* default store (script.js:2-11) and initializeApp runs loadState
\* (script.js:30-55) before any handler can run.
OpenPage ==
    \E link \in Links, useURLData \in BOOLEAN :
        LET r == loadState(DefaultState, link, localStorage, useURLData)
        IN  /\ state' = r.state
            /\ location' = r.location
            /\ lastOp' = Other
            /\ editing' = NoEdit
            /\ debounced' = NoTimers
            /\ UNCHANGED localStorage

Init ==
    \E link \in LinkInputs, stored \in StoredInputs, useURLData \in BOOLEAN :
        LET r == loadState(DefaultState, link, stored, useURLData)
        IN  /\ state = r.state
            /\ location = r.location
            /\ localStorage = stored
            /\ lastOp = Other
            /\ editing = NoEdit
            /\ debounced = NoTimers

\* The store and its handlers, from the page as first opened
Next ==
    \/ AddPerson
    \/ DeletePerson
    \/ EditPersonName
    \/ AddItem
    \/ DeleteItem
    \/ UpdatePersonQuantity
    \/ SplitEvenly
    \/ ClearAllQuantities
    \/ ShuffleQuantities
    \/ EditItem
    \/ PerformUndo
    \/ ClearState

Spec == Init /\ [][Next]_vars

\* The rates, the link and the reload, over a store that only grows
NextLink ==
    \/ AddPerson
    \/ AddItem
    \/ UpdatePersonQuantity
    \/ DeletePerson
    \/ TaxUpdate
    \/ TipUpdate
    \/ ToggleTranspose
    \/ CopyShareLink
    \/ OpenPage

SpecLink == Init /\ [][NextLink]_vars

\* The page opened for the first time: no link, nothing stored
\* (script.js:2-11, 985-1012)
InitFresh ==
    /\ state = DefaultState
    /\ localStorage = <<>>
    /\ location = NoParams
    /\ lastOp = Other
    /\ editing = NoEdit
    /\ debounced = NoTimers

\* The ids a click can carry in SpecUndo
LogIds == 0..(MaxPeople + MaxLog - 1)

LogAddPerson ==
    \E raw \in {sAmy, sBo, <<"C", "y">>} :
        /\ Len(state.people) < MaxPeople
        /\ Handled(handleAddPerson(state, raw), Other)

LogAddItem ==
    /\ Len(state.items) < 1
    /\ Handled(handleAddItem(state, sPizza, <<"2", "0">>), Other)

LogDeletePerson ==
    \E id \in LogIds :
        /\ Len(state.undoStack) < MaxLog
        /\ Handled(deletePerson(state, id), Other)

LogDeleteItem ==
    \E id \in LogIds :
        /\ Len(state.undoStack) < MaxLog
        /\ Handled(deleteItem(state, id), Other)

\* Additions, deletions and undos from the empty store; a deletion is the only
\* step the model holds back, once MaxLog entries are on the stack
NextUndo ==
    \/ LogAddPerson
    \/ LogAddItem
    \/ LogDeletePerson
    \/ LogDeleteItem
    \/ PerformUndo

SpecUndo == InitFresh /\ [][NextUndo]_vars

\* ------------------------------------------------------------ import, reload
\* script.js:98-105, 514: render() runs to its end unless an item has no
\* price, where item.price.toFixed(2) throws
Renders(s) == \A i \in 1..Len(s.items) : "price" \in DOMAIN s.items[i]

\* typeof imported[field] === 'number'; null is the only non-number the
\* snapshots of the model carry
IsNumber(rec, field) == field \in DOMAIN rec /\ ~IsNaN(rec[field])

\* script.js:1153-1172: the store the validated snapshot is assigned to
ImportAssigned(s, imported) ==
    [people |-> imported.people,
     items |-> imported.items,
     nextPersonId |-> OrZero(imported.nextPersonId),
     nextItemId |-> OrZero(imported.nextItemId),
     tax |-> Field(imported, "tax", 0),
     tip |-> Field(imported, "tip", 1000),
     isTransposed |-> Field(imported, "isTransposed", FALSE),
     undoStack |-> <<>>]

\* script.js:1145-1186, the click on Import. parsed is <<>> when the text is
\* empty or JSON.parse throws, else the parsed object in a sequence. Gives the
\* store, whether saveState() was reached, and whether the failure toast
\* was shown.
importJSON(s, parsed) ==
    IF parsed = <<>>
    THEN [state |-> s, save |-> FALSE, failed |-> TRUE]
    ELSE IF \/ "people" \notin DOMAIN parsed[1]
            \/ "items" \notin DOMAIN parsed[1]
            \/ ~IsNumber(parsed[1], "nextPersonId")
            \/ ~IsNumber(parsed[1], "nextItemId")
    THEN [state |-> s, save |-> FALSE, failed |-> TRUE]
    ELSE IF Renders(ImportAssigned(s, parsed[1]))
    THEN [state |-> ImportAssigned(s, parsed[1]), save |-> TRUE, failed |-> FALSE]
    ELSE [state |-> ImportAssigned(s, parsed[1]), save |-> FALSE, failed |-> TRUE]

\* A snapshot as exported by the page
ExportedSnapshot ==
    [people |-> <<[id |-> 0, name |-> sBo]>>,
     items |-> <<[id |-> 0, name |-> sTea, price |-> 500,
                  personQuantities |-> MapSet(EmptyMap, 0, 200)]>>,
     nextPersonId |-> 1, nextItemId |-> 1, tax |-> 500, tip |-> 0,
     isTransposed |-> TRUE, undoStack |-> <<>>]

\* The texts pasted into the import box, parsed: text that does not parse; a
\* snapshot without people; one whose nextPersonId is null; an exported
\* snapshot; a hand-edited snapshot whose item has lost its price; a snapshot
\* exported by an earlier version of the page
ImportInputs ==
    {<<>>,
     <<LegacySnapshot>>,
     <<Without(ExportedSnapshot, "people")>>,
     <<[ExportedSnapshot EXCEPT !.nextPersonId = NaN]>>,
     <<ExportedSnapshot>>,
     <<[people |-> <<[id |-> 0, name |-> sAmy]>>,
        items |-> <<[id |-> 0, name |-> sPizza, personQuantities |-> EmptyMap]>>,
        nextPersonId |-> 1, nextItemId |-> 1]>>}

ImportJSON ==
    \E parsed \in ImportInputs :
        Handled(importJSON(state, parsed),
                Op(IF importJSON(state, parsed).failed THEN "importFailed"
                   ELSE "imported"))

\* The links a page of the session is opened on: those of Links and the
\* hand-written ones
SessionLinks == Links \cup LinkInputs

\* script.js:30-55, 918-1012: the page is opened on link, and the user answers
\* useURLData if asked
LoadStep(link, useURLData) ==
    /\ state' = loadState(DefaultState, link, localStorage, useURLData).state
    /\ location' = loadState(DefaultState, link, localStorage, useURLData).location
    /\ lastOp' = [op |-> "loadState",
                   a |-> LoadCase(loadStateFromURL(link), localStorage, useURLData),
                   pre |-> <<>>]
    /\ editing' = NoEdit
    /\ debounced' = NoTimers
    /\ UNCHANGED localStorage

Reload == \E link \in SessionLinks, useURLData \in BOOLEAN : LoadStep(link, useURLData)

\* A handler of a store that does not render stops at its render() call; the
\* session is followed through the steps that do not depend on rendering:
\* another import, a clear, a reload.
SessionAddPerson == Renders(state) /\ AddPerson
SessionDeletePerson == Renders(state) /\ DeletePerson
SessionUndo == Renders(state) /\ PerformUndo
SessionCopyShareLink == Renders(state) /\ CopyShareLink

NextSession ==
    \/ SessionAddPerson
    \/ SessionDeletePerson
    \/ SessionUndo
    \/ SessionCopyShareLink
    \/ ImportJSON
    \/ ClearState
    \/ Reload

SpecSession == InitFresh /\ [][NextSession]_vars

\* ------------------------------------------------------------ the add boxes
\* Names typed into the person box, one of them Amy in lower case
AddNameInputs == PersonNameInputs \cup {<<"a", "m", "y", " ">>}

\* (name, price) typed into the item boxes: those of ItemInputs, Pizza in
\* upper case, a zero and a negative price. The price box is a number box, as
\* the boxes of script.js:396 and 480 are: it holds a decimal number or text
\* that parseFloat does not read.
AddItemInputs ==
    ItemInputs \cup {<<<<"P", "I", "Z", "Z", "A">>, <<"3">>>>,
                     <<sTea, <<"0">>>>, <<sTea, <<"-", "1">>>>}

AddNamedPerson ==
    \E raw \in AddNameInputs :
        /\ Len(state.people) < MaxPeople
        /\ Handled(handleAddPerson(state, raw),
                   [op |-> "handleAddPerson", a |-> -1, pre |-> <<raw>>])

AddNamedItem ==
    \E in \in AddItemInputs :
        /\ Len(state.items) < MaxItems
        /\ Handled(handleAddItem(state, in[1], in[2]),
                   [op |-> "handleAddItem", a |-> -1, pre |-> in])

\* The add boxes over a store that deletions thin out
NextAdd ==
    \/ AddNamedPerson
    \/ AddNamedItem
    \/ LogDeletePerson
    \/ LogDeleteItem

SpecAdd == InitFresh /\ [][NextAdd]_vars

\* ------------------------------------------------------------- stale ids
\* The handlers called with whatever id a caller holds, in the roster or not
ItemIds(s) == {s.items[i].id : i \in 1..Len(s.items)}

\* What lastOp records of a call: whether an id it carried was in the store
Found(known) == Op(IF known THEN "found" ELSE "notFound")

CallDeletePerson ==
    \E id \in Ids :
        /\ Len(state.undoStack) < MaxUndo
        /\ Handled(deletePerson(state, id), Found(id \in PersonIds(state)))

CallDeleteItem ==
    \E id \in Ids :
        /\ Len(state.undoStack) < MaxUndo
        /\ Handled(deleteItem(state, id), Found(id \in ItemIds(state)))

CallUpdatePersonQuantity ==
    \E itemId \in Ids, personId \in Ids, raw \in QuantityInputs :
        Handled(updatePersonQuantity(state, itemId, personId, raw),
                Found(itemId \in ItemIds(state) /\ personId \in PersonIds(state)))

CallSplitEvenly ==
    \E id \in Ids :
        Handled(splitEvenly(state, id), Found(id \in ItemIds(state)))

CallClearAllQuantities ==
    \E id \in Ids :
        Handled(clearAllQuantities(state, id), Found(id \in ItemIds(state)))

NextCall ==
    \/ AddPerson
    \/ AddItem
    \/ CallDeletePerson
    \/ CallDeleteItem
    \/ CallUpdatePersonQuantity
    \/ CallSplitEvenly
    \/ CallClearAllQuantities

SpecCall == InitFresh /\ [][NextCall]_vars

\* --------------------------------------------------------- fine shuffles
\* Values of Math.random() that cut a quantity into parts to be rounded or
\* dropped
FineFractions ==
    {[n |-> 0, d |-> 1], [n |-> 1, d |-> 3], [n |-> 1, d |-> 2], [n |-> 199, d |-> 200]}

\* As ItemDraws, with the fractions of FineFractions
FineDraws(n) ==
    [fr : [1..(n - 1) -> FineFractions],
     js : {f \in [1..(n - 1) -> 0..(n - 1)] : \A i \in 1..(n - 1) : f[i] <= i}]

\* Quantities typed into a quantity box
FineQuantityInputs == {<<"1">>, <<"0", ".", "0", "3">>, <<"1", ".", "0", "1">>}

SetQuantity ==
    \E itemId \in Ids, personId \in PersonIds(state), raw \in FineQuantityInputs :
        Handled(updatePersonQuantity(state, itemId, personId, raw), Other)

\* A shuffle of an item is followed while the item holds at most MaxUnits units
ShuffleFine ==
    /\ \A i \in 1..Len(state.items) :
            totalQuantities(state.items[i]) <= MaxUnits * 100
    /\ \E draws \in [1..Len(state.items) -> FineDraws(Len(state.people))] :
            Handled(shuffleQuantities(state, draws),
                    [op |-> "shuffleQuantities", a |-> -1,
                     pre |-> <<[people |-> state.people, items |-> state.items]>>])

NextShuffle ==
    \/ LogAddPerson
    \/ LogAddItem
    \/ SetQuantity
    \/ ShuffleFine

SpecShuffle == InitFresh /\ [][NextShuffle]_vars

\* -------------------------------------------------------- legacy snapshots
\* Snapshots of an earlier version in localStorage: the amounts of Tea
\* unequal (1.25 and 3.75; 1 and 2) or equal (2.50 each), or beside a sharedBy
\* list
LegacyStoredInputs ==
    {<<LegacySnapshot>>,
     <<[LegacySnapshot EXCEPT !.items[2].personAmounts =
            [k \in {0, 1} |-> IF k = 0 THEN 100 ELSE 200]]>>,
     <<[LegacySnapshot EXCEPT !.items[2].personAmounts = [k \in {0, 1} |-> 250]]>>,
     <<[LegacySnapshot EXCEPT !.items[2] =
            [id |-> 1, name |-> sTea, price |-> 500, sharedBy |-> {0, 1},
             personAmounts |-> [k \in {0, 1} |-> IF k = 0 THEN 125 ELSE 375]]]>>}

\* The page opened on no link over a legacy snapshot (script.js:30-55)
InitLegacy ==
    \E stored \in LegacyStoredInputs :
        /\ state = loadState(DefaultState, NoParams, stored, FALSE).state
        /\ location = NoParams
        /\ localStorage = stored
        /\ lastOp = [op |-> "loadState", a |-> LoadCase(<<>>, stored, FALSE),
                     pre |-> <<>>]
        /\ editing = NoEdit
        /\ debounced = NoTimers

NextLegacy ==
    \/ Reload
    \/ UpdatePersonQuantity
    \/ DeletePerson
    \/ PerformUndo

SpecLegacy == InitLegacy /\ [][NextLegacy]_vars

\* ------------------------------------------------------ roster and undo log
\* Every handler that adds, deletes, assigns or undoes, from the empty store,
\* with up to MaxLog deletions waiting to be undone
NextRoster ==
    \/ AddPerson
    \/ AddItem
    \/ UpdatePersonQuantity
    \/ SplitEvenly
    \/ ClearAllQuantities
    \/ ShuffleQuantities
    \/ LogDeletePerson
    \/ LogDeleteItem
    \/ PerformUndo
    \/ ClearState

SpecRoster == InitFresh /\ [][NextRoster]_vars

\* ------------------------------------------------------------ edits in place
\* (name, price) left in the two boxes of an item edit: those of ItemEdits, an
\* empty name beside a new price, a new name beside a price that does not
\* parse, and a price of zero
CommitInputs ==
    ItemEdits \cup {<<<<>>, <<"3", "0">>>>, <<sTea, <<"x">>>>, <<sTea, <<"0">>>>}

CommitPersonName ==
    \E id \in Ids, raw \in PersonNameInputs :
        Handled(editPersonName(state, id, raw),
                [op |-> "editPersonName", a |-> id, pre |-> <<raw>>])

CommitItem ==
    \E id \in Ids, in \in CommitInputs :
        Handled(editItem(state, id, in[1], in[2]),
                [op |-> "editItem", a |-> id, pre |-> in])

\* Names and prices edited in place over people, items and quantities
NextEdit ==
    \/ AddPerson
    \/ AddItem
    \/ UpdatePersonQuantity
    \/ DeletePerson
    \/ CommitPersonName
    \/ CommitItem

SpecEdit == InitFresh /\ [][NextEdit]_vars

\* ------------------------------------------------------- delayed item edit
\* script.js:384-404: editItem(itemId) finds the item, keeps the object, its
\* name and its price, and puts the two inputs in the list
BeginEditItem ==
    \E itemId \in Ids :
        /\ editing = NoEdit
        /\ FindIndex(state.items, itemId) # 0
        /\ LET item == state.items[FindIndex(state.items, itemId)]
           IN  editing' = <<[itemId |-> itemId, live |-> TRUE,
                             originalName |-> item.name, originalPrice |-> item.price,
                             name |-> item.name, price |-> numToString(item.price),
                             timer |-> FALSE]>>
        /\ lastOp' = Other
        /\ UNCHANGED <<state, localStorage, location, debounced>>

\* script.js:432-438: the user leaves the inputs holding (name, price); the blur
\* sets the 100 ms timer
BlurEditItem ==
    \E in \in CommitInputs :
        /\ editing # NoEdit
        /\ ~editing[1].timer
        /\ editing' = <<[editing[1] EXCEPT !.name = in[1], !.price = in[2],
                                           !.timer = TRUE]>>
        /\ lastOp' = Other
        /\ UNCHANGED <<state, localStorage, location, debounced>>

\* script.js:433-437 and 406-428: the timer fires with neither input focused
\* and saveItem writes to the item object editItem found; render() then drops
\* the inputs. lastOp keeps what the edit held.
CommitEditItem ==
    /\ editing # NoEdit
    /\ editing[1].timer
    /\ LET e == editing[1]
           newName == trim(e.name)
           newPrice == parseFloat(e.price)
           nameChanges == Len(newName) > 0 /\ newName # e.originalName
           priceChanges == ~IsNaN(newPrice) /\ newPrice >= 0 /\ newPrice # e.originalPrice
           idx == FindIndex(state.items, e.itemId)
           named == IF nameChanges THEN [state.items[idx] EXCEPT !.name = newName]
                    ELSE state.items[idx]
           priced == IF priceChanges THEN [named EXCEPT !.price = newPrice] ELSE named
           written == IF e.live /\ idx # 0 THEN [state EXCEPT !.items[idx] = priced]
                      ELSE state
       IN  Ran(IF nameChanges \/ priceChanges THEN Saved(written) ELSE NotSaved(written),
               [op |-> "saveItem", a |-> e.itemId, pre |-> <<e>>])
    /\ editing' = NoEdit
    /\ UNCHANGED debounced

\* A click elsewhere on the page first blurs the inputs of an open edit: the
\* other handlers run with no edit open or after the blur
InputsLeft == IF editing = NoEdit THEN TRUE ELSE editing[1].timer

\* An item edit among adds, quantities and deletions of people
NextDelay ==
    \/ BeginEditItem
    \/ BlurEditItem
    \/ CommitEditItem
    \/ InputsLeft /\ AddPerson
    \/ InputsLeft /\ AddItem
    \/ InputsLeft /\ UpdatePersonQuantity
    \/ InputsLeft /\ DeletePerson

SpecDelay == InitFresh /\ [][NextDelay]_vars

\* ------------------------------------------------------ debounced updates
\* A tick is 100 ms; the wait of debounce(func, 300) is three ticks
WaitTicks == 3

\* script.js:83-84 and 16-23: an input event on the tax or the tip input, which
\* now holds raw; executedFunction clears the timer and sets it anew
RateInput ==
    \E f \in {"tax", "tip"}, raw \in RateInputs :
        /\ debounced.tax.events + debounced.tip.events < MaxEvents
        /\ debounced' = [debounced EXCEPT ![f] =
                [value |-> raw, timeout |-> <<WaitTicks>>, since |-> 0,
                 burst |-> IF @.timeout = <<>> THEN 1 ELSE @.burst + 1,
                 runs |-> IF @.timeout = <<>> THEN 0 ELSE @.runs,
                 events |-> @.events + 1]]
        /\ lastOp' = Other
        /\ UNCHANGED <<state, localStorage, location, editing>>

\* 100 ms pass with no timer due: setTimeout(later, wait) of script.js:23 runs
\* later once its wait is over
Tick ==
    /\ \A f \in {"tax", "tip"} : debounced[f].timeout # <<0>>
    /\ debounced' = [f \in {"tax", "tip"} |->
            [debounced[f] EXCEPT
                !.timeout = IF @ = <<>> THEN <<>> ELSE <<@[1] - 1>>,
                !.since = IF @ > WaitTicks THEN @ ELSE @ + 1]]
    /\ lastOp' = Other
    /\ UNCHANGED <<state, localStorage, location, editing>>

\* script.js:17-20 with 71-75 or 77-81: the timer of an input is due, later
\* clears it and runs the update with the text the input holds
DebounceFire ==
    \E f \in {"tax", "tip"} :
        /\ debounced[f].timeout = <<0>>
        /\ Ran(IF f = "tax" THEN taxUpdate(state, debounced[f].value)
               ELSE tipUpdate(state, debounced[f].value), Other)
        /\ debounced' = [debounced EXCEPT ![f].timeout = <<>>, ![f].runs = @ + 1]
        /\ UNCHANGED editing

\* Typing in the rate inputs while the table is turned; time passes and a
\* timer that is due runs
NextDebounce ==
    \/ RateInput
    \/ Tick
    \/ DebounceFire
    \/ ToggleTranspose

SpecDebounce ==
    InitFresh /\ [][NextDebounce]_vars /\ WF_vars(Tick) /\ WF_vars(DebounceFire)

\* ---------------------------------------------------------------- properties
\* The breakdown the page shows for the store as it is
breakdown == calculateAndRenderSplit(state)

\* The prices of the items added up, in hundredths
RECURSIVE SumPrices(_)
SumPrices(items) ==
    IF items = <<>> THEN 0 ELSE Head(items).price + SumPrices(Tail(items))

\* C1: for every item of price p whose quantities add up to T > 0, the shares
\* quantity * (p / T) the breakdown accumulates for the item, added over the
\* people of the roster, come to p.
C1_SharesSumToPrice ==
    ~breakdown.empty =>
        \A i \in 1..Len(state.items) :
            totalQuantities(state.items[i]) > 0 =>
                RSum(breakdown.shares[i]) = Num(state.items[i].price)

\* C2: with at least one person, the bill subtotal is the sum of the item
\* prices whatever the assignment, and the grand total is the sum over the
\* people of subtotal * (1 + tax/100 + tip/100).
C2_BillTotals ==
    ~breakdown.empty =>
        /\ breakdown.totalBillSubtotal = R(SumPrices(state.items), 100)
        /\ breakdown.grandTotal =
            RSum([j \in 1..Len(state.people) |->
                    RMul(breakdown.personTotals[j].subtotal,
                         R(100 * 100 + state.tax + state.tip, 100 * 100))])

\* Witness of C2: a store where an item is left unassigned, another is
\* assigned, and both rates are nonzero and differ.
C2_Witness ==
    /\ ~breakdown.empty
    /\ state.tax > 0 /\ state.tip > 0 /\ state.tax # state.tip
    /\ \E i \in 1..Len(state.items) : totalQuantities(state.items[i]) = 0
    /\ \E j \in 1..Len(state.people) : RLess(RZero, breakdown.personTotals[j].subtotal)

\* Amy and Bo, one Pizza of 20 with quantity 1 each, tax 10 and tip 10
C3_Example ==
    /\ Len(state.people) = 2 /\ Len(state.items) = 1
    /\ state.people[1].name = sAmy /\ state.people[2].name = sBo
    /\ state.people[1].id # state.people[2].id
    /\ state.items[1].name = sPizza /\ state.items[1].price = 2000
    /\ DOMAIN PQ(state.items[1]) = PersonIds(state)
    /\ \A k \in PersonIds(state) : PQ(state.items[1])[k] = 100
    /\ state.tax = 1000 /\ state.tip = 1000

\* C3: each person's tax is subtotal * tax/100, tip is subtotal * tip/100 and
\* total is subtotal + tax + tip; in the example each subtotal is 10.00, each
\* tax 1.00, each tip 1.00, each total 12.00 and the grand total is 24.00.
C3_PersonFigures ==
    /\ \A j \in 1..Len(breakdown.personTotals) :
            LET person == breakdown.personTotals[j]
            IN  /\ person.tax = RMul(person.subtotal, R(state.tax, 100 * 100))
                /\ person.tip = RMul(person.subtotal, R(state.tip, 100 * 100))
                /\ person.total = RAdd(person.subtotal, RAdd(person.tax, person.tip))
    /\ C3_Example =>
            /\ \A j \in 1..2 :
                    /\ breakdown.personTotals[j].subtotal = R(10, 1)
                    /\ breakdown.personTotals[j].tax = R(1, 1)
                    /\ breakdown.personTotals[j].tip = R(1, 1)
                    /\ breakdown.personTotals[j].total = R(12, 1)
            /\ breakdown.grandTotal = R(24, 1)

\* Witness of C3: the example itself, with its grand total.
C3_Witness == C3_Example /\ breakdown.grandTotal = R(24, 1)

\* C4: deletePerson(id) of an existing person immediately followed by
\* performUndo restores a person with the same id and name, and every item has
\* exactly the personQuantities map it had before the deletion.
C4_UndoRestoresPerson ==
    lastOp.op = "performUndo" =>
        LET pre == lastOp.pre[1]
            deleted == pre.people[FindIndex(pre.people, lastOp.a)]
        IN  /\ \E j \in 1..Len(state.people) : state.people[j] = deleted
            /\ Len(state.items) = Len(pre.items)
            /\ \A i \in 1..Len(state.items) :
                    /\ state.items[i].id = pre.items[i].id
                    /\ PQ(state.items[i]) = PQ(pre.items[i])

\* The ids of a list are pairwise distinct
DistinctIds(seq) ==
    \A i, j \in 1..Len(seq) : i # j => seq[i].id # seq[j].id

\* C7: after any sequence of add, delete, undo, rename, quantity edits, shuffle
\* and clear, the ids of the current people are pairwise distinct and so are
\* the ids of the current items.
C7_IdsDistinct == DistinctIds(state.people) /\ DistinctIds(state.items)

\* Witness of C7: a store where an undo has put a person back behind a person
\* added after the deletion, and an item back behind an item added after it.
C7_Witness ==
    /\ Len(state.people) = 2 /\ state.people[1].id > state.people[2].id
    /\ Len(state.items) = 2 /\ state.items[1].id > state.items[2].id

\* C8: every entry of every personQuantities map is > 0; updatePersonQuantity
\* with a text that does not parse or parses to <= 0 removes the key, and
\* changes nothing when the item id is unknown.
C8_QuantitiesPositive ==
    /\ \A i \in 1..Len(state.items) :
            \A k \in DOMAIN PQ(state.items[i]) :
                ~IsNaN(PQ(state.items[i])[k]) /\ PQ(state.items[i])[k] > 0
    /\ \A itemId \in Ids, personId \in PersonIds(state), raw \in QuantityInputs :
            LET after == updatePersonQuantity(state, itemId, personId, raw).state
                idx == FindIndex(state.items, itemId)
                quantity == parseFloat(raw)
            IN  IF idx = 0 THEN after = state
                ELSE (IsNaN(quantity) \/ quantity <= 0) =>
                        personId \notin DOMAIN PQ(after.items[idx])

\* C9: immediately after deletePerson(id) of an existing person, no item has
\* id as a key of its personQuantities map.
C9_NoKeyOfDeletedPerson ==
    lastOp.op = "deletePerson" =>
        \A i \in 1..Len(state.items) : lastOp.a \notin DOMAIN PQ(state.items[i])

\* Witness of C9: a deletion where the deleted person held a quantity on each
\* of two items.
C9_Witness ==
    /\ lastOp.op = "deletePerson"
    /\ Len(lastOp.pre[1].items) = 2
    /\ \A i \in 1..2 : lastOp.a \in DOMAIN PQ(lastOp.pre[1].items[i])

\* The names of a list are non-empty and pairwise distinct ignoring case
DistinctNames(seq) ==
    /\ \A i \in 1..Len(seq) : Len(seq[i].name) > 0
    /\ \A i, j \in 1..Len(seq) :
            i # j => toLowerCase(seq[i].name) # toLowerCase(seq[j].name)

\* C10: in every reachable state the names of the current people are non-empty
\* and pairwise distinct ignoring case, and so are the names of the current
\* items.
C10_NamesDistinct == DistinctNames(state.people) /\ DistinctNames(state.items)

\* What loadStateFromURL makes of the link generateShareableURL writes for the
\* store as it is
decoded == loadStateFromURL(generateShareableURL(state))

\* C5: for a store without names that are equal ignoring case,
\* loadStateFromURL of the link generateShareableURL writes gives the same
\* people by name and order, the same items by name, price and order, and the
\* same quantity for every (item position, person position) pair, no
\* assignment lost or added.
C5_LinkRoundTrip ==
    (/\ lastOp.op = "copyShareLink"
     /\ DistinctNames(state.people) /\ DistinctNames(state.items)) =>
        /\ Len(decoded) = 1
        /\ LET new == decoded[1]
           IN  /\ Len(new.people) = Len(state.people)
               /\ \A j \in 1..Len(state.people) :
                       new.people[j].name = state.people[j].name
               /\ Len(new.items) = Len(state.items)
               /\ \A i \in 1..Len(state.items) :
                       /\ new.items[i].name = state.items[i].name
                       /\ new.items[i].price = state.items[i].price
                       /\ DOMAIN PQ(new.items[i]) \subseteq PersonIds(new)
                       /\ \A j \in 1..Len(state.people) :
                               LET old == PQ(state.items[i])
                                   got == PQ(new.items[i])
                                   oldId == state.people[j].id
                                   newId == new.people[j].id
                               IN  /\ oldId \in DOMAIN old <=> newId \in DOMAIN got
                                   /\ oldId \in DOMAIN old => got[newId] = old[oldId]

\* C6: for a store with tax >= 0 and tip >= 0, loadStateFromURL of the link
\* generateShareableURL writes gives the same tax and the same tip, also when
\* one of them is 0 or its default.
C6_RatesRoundTrip ==
    (lastOp.op = "copyShareLink" /\ state.tax >= 0 /\ state.tip >= 0) =>
        /\ Len(decoded) = 1
        /\ decoded[1].tax = state.tax
        /\ decoded[1].tip = state.tip

\* The counter is above every id of the list
AboveIds(counter, seq) == \A i \in 1..Len(seq) : seq[i].id < counter

\* C11: across every operation of a session (add, delete, undo, shuffle,
\* clear) nextPersonId and nextItemId do not decrease, and each stays above
\* every id of the store.
C11_CountersNeverDecrease ==
    [][/\ state'.nextPersonId >= state.nextPersonId
       /\ state'.nextItemId >= state.nextItemId
       /\ AboveIds(state'.nextPersonId, state'.people)
       /\ AboveIds(state'.nextItemId, state'.items)]_vars

\* C12: the undo stack has a maximum length of its own: however many people
\* and items are deleted, it stays below the number of deletions the model
\* follows.
C12_UndoStackBounded == Len(state.undoStack) < MaxLog

\* C13: the undo stack is empty after clearState, after an accepted JSON
\* import and after a startup load from the link; after a startup load from
\* the persisted snapshot it is the undo stack of that snapshot.
C13_UndoStackAfterReset ==
    [][/\ ClearState => state'.undoStack = <<>>
       /\ lastOp'.op = "imported" => state'.undoStack = <<>>
       /\ \A link \in SessionLinks, useURLData \in BOOLEAN :
            LoadStep(link, useURLData) =>
                IF FromURL(loadStateFromURL(link), localStorage, useURLData)
                THEN state'.undoStack = <<>>
                ELSE localStorage # <<>> =>
                        state'.undoStack = Field(localStorage[1], "undoStack", <<>>)]_vars

\* Witness of C13: the page reloaded from a persisted snapshot that holds a
\* deletion to undo
C13_Witness ==
    /\ lastOp.op = "loadState"
    /\ localStorage # <<>>
    /\ state.undoStack # <<>>
    /\ state.undoStack = localStorage[1].undoStack

\* The store holds the fields of the source src, the absent ones at their
\* defaults and the items migrated
LoadedFrom(s, src) ==
    /\ \A f \in {"people", "nextPersonId", "nextItemId", "tax", "tip", "isTransposed"} :
            s[f] = Field(src, f, DefaultState[f])
    /\ Len(s.items) = Len(Field(src, "items", <<>>))
    /\ \A k \in 1..Len(s.items) : s.items[k] = MigrateItem(src.items[k])

\* C14: at startup the store keeps its defaults when there is neither link
\* data nor a stored snapshot; with one of them it is loaded from that one;
\* with both every field comes from the source the user chose, and the query
\* parameters are cleared when the stored snapshot is chosen.
C14_LoadSource ==
    [][\A link \in SessionLinks, useURLData \in BOOLEAN :
        LoadStep(link, useURLData) =>
            LET urlState == loadStateFromURL(link)
                hasURL == urlState # <<>>
                hasStored == localStorage # <<>>
            IN  /\ ~hasURL /\ ~hasStored => state' = DefaultState
                /\ hasURL /\ ~hasStored => LoadedFrom(state', urlState[1])
                /\ ~hasURL /\ hasStored => LoadedFrom(state', localStorage[1])
                /\ hasURL /\ hasStored /\ useURLData => LoadedFrom(state', urlState[1])
                /\ hasURL /\ hasStored /\ ~useURLData =>
                    /\ LoadedFrom(state', localStorage[1])
                    /\ location' = NoParams]_vars

\* Witness of C14: the page opened on a link over a stored snapshot, the
\* snapshot kept
C14_Witness ==
    /\ lastOp.op = "loadState"
    /\ lastOp.a = 4
    /\ location = NoParams
    /\ state.people = localStorage[1].people
    /\ state.people # <<>>

\* C15: a JSON import reported as failed leaves the store as it was: people,
\* items, counters, rates, transpose flag and undo stack.
C15_FailedImportKeepsStore ==
    [][lastOp'.op = "importFailed" => state' = state]_vars

\* Every field of the store but the list and the counter named is unchanged
SameBut(s, n, list, counter) ==
    \A f \in DOMAIN s \ {list, counter} : n[f] = s[f]

\* The list n is the list s with one more entry at its end
OneAppended(s, n) ==
    /\ Len(n) = Len(s) + 1
    /\ SubSeq(n, 1, Len(s)) = s

\* C16: handleAddPerson with a name that is, ignoring case, the name of a
\* current person leaves the whole store unchanged; with any other non-empty
\* name it appends one person whose id is the previous nextPersonId and adds
\* one to nextPersonId, changing nothing else.
C16_AddPerson ==
    [][lastOp'.op = "handleAddPerson" =>
        LET name == trim(lastOp'.pre[1])
        IN  IF \E i \in 1..Len(state.people) :
                    toLowerCase(state.people[i].name) = toLowerCase(name)
            THEN state' = state
            ELSE name # <<>> =>
                    /\ OneAppended(state.people, state'.people)
                    /\ state'.people[Len(state'.people)] =
                            [id |-> state.nextPersonId, name |-> name]
                    /\ state'.nextPersonId = state.nextPersonId + 1
                    /\ SameBut(state, state', "people", "nextPersonId")]_vars

\* Witness of C16: amy was typed while Amy is in the roster, and the roster
\* holds no amy
C16_Witness ==
    /\ lastOp.op = "handleAddPerson"
    /\ trim(lastOp.pre[1]) = <<"a", "m", "y">>
    /\ \E i \in 1..Len(state.people) : state.people[i].name = sAmy
    /\ \A i \in 1..Len(state.people) : state.people[i].name # <<"a", "m", "y">>
    /\ state.nextPersonId > Len(state.people)

\* C17: handleAddItem with a name empty after trim, a price that is not a
\* positive number, or a name that is, ignoring case, the name of a current
\* item leaves the whole store unchanged; otherwise it appends one item with
\* the previous nextItemId as id, the given price and an empty quantity map,
\* and adds one to nextItemId.
C17_AddItem ==
    [][lastOp'.op = "handleAddItem" =>
        LET name == trim(lastOp'.pre[1])
            price == parseFloat(lastOp'.pre[2])
        IN  IF \/ name = <<>>
               \/ IsNaN(price)
               \/ price <= 0
               \/ \E i \in 1..Len(state.items) :
                        toLowerCase(state.items[i].name) = toLowerCase(name)
            THEN state' = state
            ELSE /\ OneAppended(state.items, state'.items)
                 /\ state'.items[Len(state'.items)] =
                        [id |-> state.nextItemId, name |-> name, price |-> price,
                         personQuantities |-> EmptyMap]
                 /\ state'.nextItemId = state.nextItemId + 1
                 /\ SameBut(state, state', "items", "nextItemId")]_vars

\* Witness of C17: an item added beside Pizza after a deletion, its id above
\* its place in the list
C17_Witness ==
    /\ lastOp.op = "handleAddItem"
    /\ Len(state.items) = 2
    /\ state.items[2].name = trim(lastOp.pre[1])
    /\ state.items[2].id = state.nextItemId - 1
    /\ state.items[2].id > 1
    /\ state.items[1].name = sPizza

\* C18: deletePerson, deleteItem, splitEvenly, clearAllQuantities and
\* updatePersonQuantity called with an id that is not in the store change
\* nothing: people, items and their quantity maps, counters, rates and the
\* undo stack stay as they were.
C18_UnknownIdNoOp ==
    [][lastOp'.op = "notFound" => state' = state]_vars

\* C19: a shuffle keeps the total quantity of every item: an item whose
\* quantities added up to T > 0 before the shuffle adds up to T after it,
\* within the hundredth that rounding or dropping can cost for each person of
\* the roster, whatever the random draws.
C19_ShuffleKeepsTotal ==
    lastOp.op = "shuffleQuantities" =>
        LET pre == lastOp.pre[1]
        IN  Len(pre.people) >= 1 =>
                \A i \in 1..Len(pre.items) :
                    totalQuantities(pre.items[i]) > 0 =>
                        Abs(totalQuantities(state.items[i])
                            - totalQuantities(pre.items[i])) <= Len(pre.people)

\* Witness of C19: a shuffle among two people that changed the quantities of
\* an item and left a total one hundredth off
C19_Witness ==
    /\ lastOp.op = "shuffleQuantities"
    /\ Len(state.people) = 2
    /\ Len(state.items) = 1
    /\ state.items # lastOp.pre[1].items
    /\ totalQuantities(lastOp.pre[1].items[1]) > 0
    /\ totalQuantities(state.items[1]) # totalQuantities(lastOp.pre[1].items[1])

\* C20: an item loaded from the stored snapshot with personAmounts and no
\* personQuantities gets a quantity for each person listed: 1 each when the
\* amounts are all equal, else amount / totalAmount * personCount (to the
\* hundredth the model keeps), so that the quantities add up to the number
\* of people listed.
C20_AmountsMigrated ==
    (lastOp.op = "loadState" /\ lastOp.a \in {2, 4}) =>
        \A k \in 1..Len(localStorage[1].items) :
            LET old == localStorage[1].items[k]
                pa == old.personAmounts
                keys == DOMAIN pa
                n == Cardinality(keys)
                total == SumOver(pa, keys)
                pq == state.items[k].personQuantities
            IN  ("personAmounts" \in DOMAIN old /\ "personQuantities" \notin DOMAIN old) =>
                    /\ DOMAIN pq = keys
                    /\ IF \A i \in keys, j \in keys : pa[i] = pa[j]
                       THEN \A id \in keys : pq[id] = 100
                       ELSE /\ \A id \in keys :
                                /\ pq[id] * total <= pa[id] * n * 100
                                /\ pa[id] * n * 100 < (pq[id] + 1) * total
                            /\ Abs(SumOver(pq, keys) - n * 100) <= n

\* Witness of C20: Tea loaded with the amounts 1 and 2 of the stored snapshot
\* turned into the quantities 0.66 and 1.33
C20_Witness ==
    /\ lastOp.op = "loadState"
    /\ lastOp.a = 2
    /\ Len(state.items) = 2
    /\ "personAmounts" \in DOMAIN localStorage[1].items[2]
    /\ "personAmounts" \notin DOMAIN state.items[2]
    /\ state.items[2].personQuantities = [k \in {0, 1} |-> IF k = 0 THEN 66 ELSE 133]

\* C21: no item of the store carries a legacy sharedBy or personAmounts field
\* without a personQuantities map: every snapshot accepted from storage, from
\* the link or through the JSON import is migrated first.
C21_NoLegacyItem ==
    \A i \in 1..Len(state.items) :
        ("sharedBy" \in DOMAIN state.items[i] \/ "personAmounts" \in DOMAIN state.items[i])
            => "personQuantities" \in DOMAIN state.items[i]

\* The item with the quantity entries of people outside the roster taken away
InRoster(people, item) ==
    WithPQ(item, [k \in DOMAIN PQ(item) \cap {people[j].id : j \in 1..Len(people)}
                    |-> PQ(item)[k]])

\* C22: a quantity entry whose key is not the id of a person of the roster
\* counts as zero in the breakdown: the share of every person of the roster on
\* the item is what it would be without the entry.
C22_OrphanEntryIgnored ==
    \A i \in 1..Len(state.items), j \in 1..Len(state.people) :
        Share(state.people, state.items[i], j)
            = Share(state.people, InRoster(state.people, state.items[i]), j)

\* C23: the tax and tip percentages of the store are numbers >= 0 in every
\* reachable state, whatever is typed into the two inputs or comes with the
\* link.
C23_RatesNonNegative ==
    /\ ~IsNaN(state.tax) /\ state.tax >= 0
    /\ ~IsNaN(state.tip) /\ state.tip >= 0

PeopleSet(people) == {people[j] : j \in 1..Len(people)}
ItemSet(items) ==
    {[id |-> items[i].id, name |-> items[i].name, price |-> items[i].price,
      pq |-> PQ(items[i])] : i \in 1..Len(items)}

\* C25: deletions followed by as many undos bring back the same set of people
\* and the same set of items, with their complete quantity maps, as before the
\* first deletion (here: one deletion of a person and its undo), and
\* performUndo on an empty stack changes nothing.
C25_UndoLossless ==
    [][/\ (state.undoStack = <<>> /\ PerformUndo) => state' = state
       /\ lastOp'.op = "performUndo" =>
            /\ PeopleSet(state'.people) = PeopleSet(lastOp'.pre[1].people)
            /\ ItemSet(state'.items) = ItemSet(lastOp'.pre[1].items)]_vars

\* C26: the persisted snapshot is in step with the store after every
\* operation, a startup load from a link included: reloading the page with no
\* query parameters gives back the people, items, counters, rates, transpose
\* flag and undo stack of the store.
C26_SnapshotInStep ==
    loadState(DefaultState, NoParams, localStorage, FALSE).state = state

\* C27: the encodings of an item are migrated in the order quantities,
\* sharedBy, amounts: an item loaded with personQuantities is left as it is;
\* one with a sharedBy list and no personQuantities gets quantity 1 for every
\* id of the list, also when it carries personAmounts; only an item with
\* personAmounts alone is converted from the amounts.
C27_MigrationOrder ==
    (lastOp.op = "loadState" /\ lastOp.a \in {2, 4}) =>
        \A k \in 1..Len(localStorage[1].items) :
            LET old == localStorage[1].items[k]
                new == state.items[k]
            IN  /\ "personQuantities" \in DOMAIN old => new = old
                /\ ("sharedBy" \in DOMAIN old /\ "personQuantities" \notin DOMAIN old) =>
                        new.personQuantities = [id \in old.sharedBy |-> 100]

\* The item index, person index and quantity a triple "i-j:qty" is read as
TripleOf(t) ==
    LET parts == split(t, ":")
        indices == split(parts[1], "-")
    IN  [item |-> IndexOf(indices[1]),
         person |-> IF Len(indices) >= 2 THEN IndexOf(indices[2]) ELSE -1,
         qty |-> ParsePiece(parts, 1)]

\* The store s holds the people and items the link names, and for each item
\* and person in range the quantity of the last triple naming them, and no
\* other quantity
DecodedInRange(link, s) ==
    LET triples == IF Len(link.q) > 0 THEN split(link.q, ";") ELSE <<>>
        naming(i, k) == {n \in 1..Len(triples) :
                            TripleOf(triples[n]).item = i /\ TripleOf(triples[n]).person = k}
        last(S) == CHOOSE n \in S : \A m \in S : m <= n
    IN  /\ Len(s.people) = IF Len(link.p) > 0 THEN Len(split(link.p, ",")) ELSE 0
        /\ Len(s.items) = IF Len(link.i) > 0 THEN Len(split(link.i, ";")) ELSE 0
        /\ \A i \in 0..(Len(s.items) - 1) :
                LET pq == s.items[i + 1].personQuantities
                IN  /\ DOMAIN pq = {k \in 0..(Len(s.people) - 1) : naming(i, k) # {}}
                    /\ \A k \in DOMAIN pq :
                            pq[k] = TripleOf(triples[last(naming(i, k))]).qty

\* C28: loadStateFromURL skips every quantity triple whose item index or
\* person index is out of range and decodes the rest: the store loaded from a
\* link holds the people, the items and the assignments in range, and none for
\* the skipped triples.
C28_OutOfRangeSkipped ==
    [][lastOp'.op = "loadState" =>
        \A link \in SessionLinks, useURLData \in BOOLEAN :
            (/\ LoadStep(link, useURLData)
             /\ FromURL(loadStateFromURL(link), localStorage, useURLData))
                => DecodedInRange(link, state')]_vars

\* Witness of C28: the store loaded from the link whose triples 0-2 and 1-0
\* are out of range for two people and one item
C28_Witness ==
    /\ lastOp.op = "loadState"
    /\ lastOp.a \in {1, 3}
    /\ Len(state.people) = 2
    /\ Len(state.items) = 1
    /\ state.items[1].personQuantities = [k \in {0, 1} |-> IF k = 0 THEN 0 ELSE NaN]

FullBill ==
    RMul(breakdown.totalBillSubtotal, R(100 * 100 + state.tax + state.tip, 100 * 100))

\* C30: with rates that are not negative and every quantity key in the
\* roster, the grand total is at most billSubtotal * (1 + tax/100 + tip/100);
\* it is equal to it when every item with a price has a positive total
\* quantity and strictly smaller when the cost of some item is unassigned,
\* which the bill subtotal, tax and tip still count.
C30_GrandTotalBound ==
    (/\ ~breakdown.empty
     /\ state.tax >= 0 /\ state.tip >= 0
     /\ \A i \in 1..Len(state.items) :
            DOMAIN PQ(state.items[i]) \subseteq PersonIds(state))
        => /\ ~RLess(FullBill, breakdown.grandTotal)
           /\ (\A i \in 1..Len(state.items) :
                    state.items[i].price # 0 => totalQuantities(state.items[i]) > 0)
                => breakdown.grandTotal = FullBill
           /\ (\E i \in 1..Len(state.items) :
                    state.items[i].price > 0 /\ totalQuantities(state.items[i]) <= 0)
                => RLess(breakdown.grandTotal, FullBill)
           /\ breakdown.totalBillSubtotal = R(SumPrices(state.items), 100)
           /\ breakdown.totalTax = RMul(breakdown.totalBillSubtotal, R(state.tax, 100 * 100))
           /\ breakdown.totalTip = RMul(breakdown.totalBillSubtotal, R(state.tip, 100 * 100))

\* The numbers of an items-as-rows table o and of a people-as-rows table t, cell
\* by cell
SameNumbers(o, t) ==
    /\ \A i \in 1..Len(o.rows) :
        /\ \A j \in 1..Len(t.rows) : o.rows[i].cells[j] = t.rows[j].cells[i]
        /\ o.rows[i].itemTotal = t.itemTotals[i]
    /\ \A j \in 1..Len(t.rows) :
        /\ o.summary[j].subtotal = t.rows[j].subtotal
        /\ o.summary[j].tax = t.rows[j].tax
        /\ o.summary[j].tip = t.rows[j].tip
        /\ o.summary[j].total = t.rows[j].total

\* C31: the table with items as rows and the table with people as rows show
\* the same numbers for the same store: every (item, person) cell is empty in
\* both or carries the same quantity and amount in both, every item total is
\* the same, and so are the subtotal, tax, tip and total of every person;
\* toggleTranspose changes only the isTransposed flag.
C31_ProjectionsAgree ==
    /\ [](Len(state.people) > 0 => SameNumbers(originalView(state), transposedView(state)))
    /\ [][ToggleTranspose =>
            /\ state'.isTransposed = ~state.isTransposed
            /\ \A f \in DOMAIN state \ {"isTransposed"} : state'[f] = state[f]
            /\ DOMAIN state' = DOMAIN state]_vars

\* The people-as-rows table is on screen and shows a cell with a quantity
\* above one next to an empty cell, right after a toggle
C31_Witness ==
    /\ state.isTransposed
    /\ Len(state.people) = 2 /\ Len(state.items) > 0
    /\ \E i \in 1..Len(state.items) :
        /\ transposedView(state).rows[1].cells[i] # <<>>
        /\ transposedView(state).rows[1].cells[i][1].quantity > 100
        /\ transposedView(state).rows[2].cells[i] = <<>>

\* What a shuffle may change between the store s and the store s2 it leaves
ShuffleFrame(s, s2) ==
    /\ DOMAIN s2 = DOMAIN s
    /\ \A f \in DOMAIN s \ {"items"} : s2[f] = s[f]
    /\ Len(s2.items) = Len(s.items)
    /\ \A i \in 1..Len(s.items) :
        IF totalQuantities(s.items[i]) = 0
        THEN s2.items[i] = s.items[i]
        ELSE /\ DOMAIN s2.items[i] = DOMAIN s.items[i] \cup {"personQuantities"}
             /\ \A f \in DOMAIN s.items[i] \ {"personQuantities"} :
                    s2.items[i][f] = s.items[i][f]
             /\ DOMAIN PQ(s2.items[i]) \subseteq PersonIds(s)

\* C32: shuffleQuantities changes only the personQuantities maps of the items
\* whose total quantity is not zero: an item with a zero total keeps its map,
\* the keys of a reshuffled map are ids of current people, and people, item
\* names and prices, counters, rates and the undo stack stay as they are; with
\* no people or no items nothing changes at all.
C32_ShuffleFrame ==
    [][ShuffleQuantities =>
        /\ ShuffleFrame(state, state')
        /\ (Len(state.people) = 0 \/ Len(state.items) = 0) =>
                state' = state /\ localStorage' = localStorage]_vars

\* A shuffle has piled two units on one person (no other operation of
\* SpecRoster stores a quantity above one) beside an item with nothing
\* assigned, with a deletion waiting on the undo stack
C32_Witness ==
    /\ Len(state.items) = 2
    /\ Len(state.undoStack) > 0
    /\ \E i, k \in 1..2 :
        /\ \E id \in DOMAIN PQ(state.items[i]) : PQ(state.items[i])[id] = 200
        /\ totalQuantities(state.items[k]) = 0

\* C33: an item edit committed with a valid, changed name or price updates the
\* item with that id in the store and in the snapshot then persisted, also
\* when another operation such as deletePerson ran between the blur and the
\* commit 100 ms later.
C33_DelayedCommitLands ==
    (lastOp.op = "saveItem" /\ FindIndex(state.items, lastOp.a) # 0) =>
        LET e == lastOp.pre[1]
            idx == FindIndex(state.items, lastOp.a)
            newName == trim(e.name)
            newPrice == parseFloat(e.price)
        IN  /\ (Len(newName) > 0 /\ newName # e.originalName) =>
                    /\ state.items[idx].name = newName
                    /\ localStorage # <<>> /\ localStorage[1].items[idx].name = newName
            /\ (~IsNaN(newPrice) /\ newPrice >= 0 /\ newPrice # e.originalPrice) =>
                    /\ state.items[idx].price = newPrice
                    /\ localStorage # <<>> /\ localStorage[1].items[idx].price = newPrice

\* The debounced update of input f has run once, at the wait after the last
\* input event, and the store holds the rate the input shows
Settled(f) ==
    /\ debounced[f].timeout = <<>>
    /\ debounced[f].runs = 1
    /\ debounced[f].since >= WaitTicks
    /\ state[f] = OrZero(parseFloat(debounced[f].value))

\* C34: in a burst of tax or tip input events, each less than 300 ms after
\* the one before, the debounced update does not run before the burst ends;
\* it runs once, 300 ms after the last event, and sets the rate to what the
\* input holds then, so that the store comes to reflect the last value
\* entered.
C34_DebouncedOnce ==
    /\ [](\A f \in {"tax", "tip"} :
            /\ debounced[f].timeout # <<>> =>
                    /\ debounced[f].runs = 0
                    /\ debounced[f].timeout[1] = WaitTicks - debounced[f].since
            /\ (debounced[f].timeout = <<>> /\ debounced[f].events > 0) => Settled(f))
    /\ (debounced.tax.timeout # <<>>) ~> Settled("tax")
    /\ (debounced.tip.timeout # <<>>) ~> Settled("tip")

\* A burst of three tax input events has settled on a rate other than the
\* default one
C34_Witness ==
    /\ debounced.tax.burst = 3
    /\ Settled("tax")
    /\ state.tax # 0

====
